---- MODULE Spec2Model ----
(***************************************************************************)
(* A model of baq, an encrypted deduplicating backup engine.               *)
(*                                                                         *)
(*   Spec      one run of do_backup: the driver and the per-file pipeline  *)
(*             of backup_file_contents (reader, whole-file hasher,         *)
(*             compress/encrypt workers, storer) as interleaved threads.   *)
(*   SpecFail  Spec, with each thread of the pipeline able to raise.       *)
(*   SpecLive  Spec on one file of seven blocks, fairly scheduled.         *)
(*   SpecStore the data collector of the S3 backend and its multipart      *)
(*             uploads, and the data files of the file backend.            *)
(*   SpecSeq   backups run one after another, and a restore of the last.   *)
(*   SpecRestore  runs of do_restore of one backup onto a local path.      *)
(*   SpecExisting  do_restore onto files that hold bytes already.          *)
(*   SpecCache backups of two local paths to one destination, with the     *)
(*             replacement of the cached manifest in its steps.            *)
(*   SpecChunks  ChunkAdapter over the file backend.                       *)
(*   SpecPlan  do_restore planning its restore tasks.                      *)
(*   SpecWrite the threads of one do_restore: its restore tasks, the       *)
(*             writers of write_pool, and do_restore waiting for them.     *)
(*   SpecRanges  calls of S3Backend.retrieve_file_ranges.                  *)
(*   SpecReader  calls of BackupMetaReader, of backup.py and of helpers.   *)
(*   SpecKeys  incremental backups of operations.py and their keys.        *)
(*   SpecOps   backups and restores of operations.py as the clock runs.    *)
(*                                                                         *)
(* Bytes are drawn from Byte, a block is a sequence of bytes, the program  *)
(* runs with BAQ_BLOCK_SIZE=2 on a machine with two CPUs.  Hashes are      *)
(* collision-free: a digest is a record holding the hashed bytes.          *)
(***************************************************************************)
EXTENDS Integers, Sequences, FiniteSets, TLC

\* ------------------------------------------------------------------ bounds

\* The bytes of all files of a source tree together.
MaxTreeBytes == 4

Byte == {0, 1}

\* The store_block / write_data_chunk calls of a producer, and the bytes of
\* a block it hands over.
MaxCalls == 4

MaxStoreLen == 3

\* The do_backup runs to one destination, and the seconds the clock advances.
MaxBackups == 2

MaxClock == 2

\* The bytes of all files of a source tree of these runs.
MaxSeqTreeBytes == 3

\* The bytes of all files of the source tree of a run whose threads may fail.
MaxFailTreeBytes == 3

\* The blocks of a manifest a restore is planned for, the data files they are
\* stored in, and the offsets they are stored at.
MaxPlanBlocks == 4

MaxPlanFiles == 2

MaxPlanOffset == 2

\* The backups of operations.backup made one after another, and the greatest
\* reuse_backup_count they are made with.
MaxKeyBackups == 4

MaxReuseCount == 2

\* The threads of write_pool, of the eight of do_restore.
write_pool_size == 2

\* The write futures restore_from_data_file leaves unawaited when it goes on
\* to the next block, of the hundred of the code.
max_write_futures == 1

\* The bytes of the file of a run whose threads are scheduled fairly: more
\* blocks than there are threads to hold them.
LiveFileBytes == 14

\* The bytes of all files of a source tree of the runs that share caches.
MaxCacheTreeBytes == 2

\* The values BAQ_BLOCK_SIZE has in the processes of these runs, and the
\* local paths they back up.
ConfiguredBlockSizes == {1, 2}

SourcePaths == {"/src1", "/src2"}

\* The do_restore runs on one target, and the bytes of a block device.
MaxRestores == 2

\* The ranges of one retrieve_file_ranges call, their offsets and sizes.
MaxRanges == 3

MaxRangeOffset == 3

MaxRangeSize == 2

\* The records of a manifest handed to BackupMetaReader.
MaxRecords == 5

\* The backups of operations.backup, the seconds of their clock and the
\* seconds of a day of it.
MaxOpsBackups == 3

MaxOpsClock == 12

SecondsPerDay == 12

BlockDevSize == 3

\* ------------------------------------------------------- program constants

default_block_size == 2

worker_count == 2

wfhash_queue_size == 10

queue_extra == 10

data_file_size == 8

part_size == 2

max_waiting_uploads == 3

upload_pool_size == 8

file_backend_data_file_size == 3

\* ----------------------------------------------------------------- helpers

Range(s) == {s[i] : i \in DOMAIN s}

Min(a, b) == IF a < b THEN a ELSE b

\* Python's s[a:b] of a bytes object.
Slice(s, a, b) == SubSeq(s, a + 1, Min(b, Len(s)))

\* ------------------------------------------------------------------ crypto

sha3_512(data) == [alg |-> "sha3_512", of |-> data]

sha1(data) == [alg |-> "sha1", of |-> data]

\* zstandard.compress: a frame header, then the payload.
zstd_compress(data) == <<40>> \o data

zstd_decompress(frame) ==
    IF Len(frame) >= 1 /\ frame[1] = 40 THEN Tail(frame) ELSE <<-1>>

\* AES-CTR: the nonce, then the data combined bytewise with a key stream that
\* the key, the nonce and the position determine.
encrypt_aes(data, key, nonce) ==
    <<nonce>> \o [i \in 1..Len(data) |-> (data[i] + key + nonce + i) % 256]

\* The nonce token_bytes(16) returns for the n-th block of a file: no two
\* blocks of a file get the same.
token_bytes(n) == n

decrypt_aes(encrypted_data, key) ==
    [i \in 1..(Len(encrypted_data) - 1) |->
        (encrypted_data[i + 1] + 1024 - key - encrypted_data[1] - i) % 256]

\* ------------------------------------------------------------- source tree

Paths == {"a", "d", "d/b"}

\* sorted(path.iterdir()), directories descended into right after they are
\* yielded.
PathOrder == <<"a", "d", "d/b">>

Contents == UNION {[1..n -> Byte] : n \in 0..MaxTreeBytes}

NoEntry == [kind |-> "none", data |-> <<>>]

DirEntry == [kind |-> "dir", data |-> <<>>]

FileEntry(data) == [kind |-> "file", data |-> data]

Trees ==
    {t \in [Paths -> {NoEntry, DirEntry} \cup {FileEntry(c) : c \in Contents}] :
        /\ t["a"].kind \in {"none", "file"}
        /\ t["d"].kind \in {"none", "dir"}
        /\ t["d/b"].kind \in {"none", "file"}
        /\ t["d/b"].kind = "file" => t["d"].kind = "dir"
        /\ Len(t["a"].data) + Len(t["d/b"].data) <= MaxTreeBytes}

walk_files(t) == SelectSeq(PathOrder, LAMBDA p : t[p].kind # "none")

\* --------------------------------------------------------------- manifest

NoName == [backup_id |-> -1, number |-> -1]

\* f'baq.{backup_id}.data-{number:06d}'
DataFileName(backup_id, number) == [backup_id |-> backup_id, number |-> number]

NoBlock ==
    [offset |-> -1, size |-> 0, sha3 |-> sha3_512(<<>>), aes_key |-> -1,
     store_file |-> NoName, store_offset |-> -1, store_size |-> 0]

FileBlock(offset, size, sha3, aes_key, store_file, store_offset, store_size) ==
    [offset |-> offset, size |-> size, sha3 |-> sha3, aes_key |-> aes_key,
     store_file |-> store_file, store_offset |-> store_offset,
     store_size |-> store_size]

HeaderRecord(bs) == [kind |-> "baq_backup", format_version |-> 1, block_size |-> bs]

\* str(n) and oct(n) of an integer, and int(s) and int(s, 8) of such strings.
str(n) == [str |-> n]

oct(n) == [oct |-> n]

int(s) == s.str

int8(s) == s.oct

\* path.stat() of an entry of the source, and the owner and group names the
\* system has for it: each entry has its own times, ids and mode.
stat(path) ==
    LET k == CHOOSE i \in DOMAIN PathOrder : PathOrder[i] = path
    IN  [st_mtime_ns |-> 10 * k + 1, st_atime_ns |-> 10 * k + 2,
         st_ctime_ns |-> 10 * k + 3, st_uid |-> 1000 + k, st_gid |-> 100 + k,
         st_mode |-> 400 + k]

\* What none_if_keyerror returns for an id without a name.
None == "None"

EntryRecord(kind, path, st, owner, group) ==
    [kind |-> kind, path |-> path,
     st_mtime_ns |-> str(st.st_mtime_ns), st_atime_ns |-> str(st.st_atime_ns),
     st_ctime_ns |-> str(st.st_ctime_ns), st_uid |-> st.st_uid,
     st_gid |-> st.st_gid, st_mode |-> oct(st.st_mode),
     owner |-> owner, group |-> group]

DirectoryRecord(path) == EntryRecord("directory", path, stat(path), "root", "root")

FileRecord(path) == EntryRecord("file", path, stat(path), "root", "root")

\* A file_data record that takes its offset from the known block.
FileDataRecord_BlockOffset(file_offset, size, b) ==
    [kind |-> "file_data", offset |-> b.offset, size |-> size,
     sha3 |-> b.sha3, aes_key |-> b.aes_key, store_file |-> b.store_file,
     store_offset |-> b.store_offset, store_size |-> b.store_size]

FileDataRecord(file_offset, size, b) ==
    [kind |-> "file_data", offset |-> file_offset, size |-> size,
     sha3 |-> b.sha3, aes_key |-> b.aes_key, store_file |-> b.store_file,
     store_offset |-> b.store_offset, store_size |-> b.store_size]

FileSummaryRecord(size, compressed_size, digest) ==
    [kind |-> "file_summary", size |-> size,
     compressed_size |-> compressed_size, sha1 |-> digest]

\* ------------------------------------------------ the prior backup's index

PrevBackupId == 0

PrevKey == 1

\* The blocks a prior backup stored, as its cached manifest lists them: the
\* prior data file holds their stored forms one after another.
PrevBlockList == << <<0, 0>>, <<1>> >>

PrevStored(i) == encrypt_aes(zstd_compress(PrevBlockList[i]), PrevKey, 0)

RECURSIVE PrevOffset(_)
PrevOffset(i) == IF i <= 1 THEN 0 ELSE PrevOffset(i - 1) + Len(PrevStored(i - 1))

PrevFileBlock(i) ==
    FileBlock(0, Len(PrevBlockList[i]), sha3_512(PrevBlockList[i]), PrevKey,
              DataFileName(PrevBackupId, 0), PrevOffset(i), Len(PrevStored(i)))

\* BackupMetaReader.blocks of a cached manifest that lists the blocks in S.
PrevIndex(S) ==
    [h \in {sha3_512(PrevBlockList[i]) : i \in S} |->
        PrevFileBlock(CHOOSE i \in S : sha3_512(PrevBlockList[i]) = h)]

\* No cached manifest (previous_backup_meta is None), or the prior backup's.
PrevMetas ==
    {[present |-> FALSE, blocks |-> PrevIndex({})],
     [present |-> TRUE, blocks |-> PrevIndex(DOMAIN PrevBlockList)]}

get_block_by_sha3(meta, h) ==
    IF meta.present /\ h \in DOMAIN meta.blocks THEN meta.blocks[h] ELSE NoBlock

\* ------------------------------------------------------------------- state

VARIABLES
    tree,                 \* the source tree being backed up
    previous_backup_meta, \* the cached manifest's index
    backup_id,            \* the id of this run
    pc,                   \* where do_backup is
    idx,                  \* the entry of the walk do_backup is at
    meta_file,            \* the manifest records written by write_meta
    meta_owner,           \* for each record, the path whose processing wrote it
    aes_key,              \* the key of the file being backed up
    next_key,             \* the keys token_bytes(32) has not returned yet
    reader,               \* read_thread
    hasher,               \* whole_file_hash_thread
    workers,              \* compress_and_encrypt_thread, one per worker
    compressed_size,      \* the sum of the workers' compressed_size counters
    storer,               \* store_thread
    wfhash_queue,
    encrypt_queue,
    store_queue,
    futs,                 \* the SimpleFuture of each block read, in read order
    block_cache,          \* sha3 -> FileBlock of the blocks stored by this run
    collector,            \* S3DataCollector, as the producer sees it
    objects,              \* the bytes handed to each data file
    store_log,            \* the sha3 of each block passed to store_block
    backend,              \* the store the producer writes to: "s3" or "file"
    files,                \* S3DataCollector.all_files and their multipart uploads
    dc_pc,                \* where the user of the S3DataCollector is
    store_calls,          \* the store_block / write_data_chunk calls and returns
    meta_uploaded,        \* do_backup has uploaded baq.<backup_id>.meta
    fb,                   \* FileBackend
    fb_dir,               \* the files of the FileBackend's directory
    clock,                \* the UTC second datetime.utcnow() is in
    remote_data,          \* the data objects of the destination
    remote_meta,          \* the .meta objects of the destination, by backup id
    last_meta,            \* the cached manifest ~/.cache/baq/<name>/last-meta
    uploads,              \* the object name of each multipart upload made
    runs,                 \* the do_backup runs: id, source tree, outcome
    fresh_key,            \* the keys token_bytes(32) has not returned yet
    meta_reader,          \* the BackupMetaReader class do_restore runs with
    restored,             \* the outcome of do_restore
    local_path,           \* what do_restore's local_path is and holds
    restore_log,          \* the do_restore runs on local_path and their outcomes
    fn_call,              \* the function called on its own, and its arguments
    fn_result,            \* what that call returned, raised and requested
    disk,                 \* the directory do_restore restores into
    mutex,                \* directory_mutex: the writer that holds it, or 0
    writers,              \* the write_restore_block calls given to write_pool
    rtasks,               \* the restore_from_data_file calls of restore_pool
    main                  \* do_restore, from the submission of its tasks on

backupVars ==
    <<tree, previous_backup_meta, backup_id, pc, idx, meta_file, meta_owner,
      aes_key, next_key, reader, hasher, workers, compressed_size, storer,
      wfhash_queue, encrypt_queue, store_queue, futs, block_cache, collector,
      objects, store_log>>

constVars == <<tree, previous_backup_meta, backup_id>>

driverVars == <<pc, idx, aes_key, next_key>>

metaVars == <<meta_file, meta_owner>>

queueVars == <<wfhash_queue, encrypt_queue, store_queue, futs>>

storeVars == <<block_cache, collector, objects, store_log>>

\* The state of a run besides the data collector.
runVars ==
    <<constVars, driverVars, metaVars, queueVars, reader, hasher, workers,
      compressed_size, storer, block_cache, objects, store_log>>

s3Vars == <<backend, files, dc_pc, store_calls, meta_uploaded, fb, fb_dir>>

seqVars ==
    <<clock, remote_data, remote_meta, last_meta, uploads, runs, fresh_key,
      meta_reader, restored, local_path, restore_log>>

\* The threads of a do_restore and the files they write.
writeVars == <<disk, mutex, writers, rtasks, main>>

\* A function of the program called on its own, outside of a run.
callVars == <<fn_call, fn_result>>

vars == <<backupVars, s3Vars, seqVars, callVars, writeVars>>

Workers == 1..worker_count

\* ---------------------------------------------------------- data collector

\* S3DataCollector as store_block's caller sees it: which data file is open
\* and how many bytes it holds.
NewCollector(id) ==
    [backup_id |-> id, file_number |-> 0, open |-> FALSE,
     current_file_name |-> NoName, offset |-> 0]

\* A store_block that takes the offset of the data file written last.
StoreBlockResult_StaleOffset(dc) ==
    [filename |-> IF dc.open THEN dc.current_file_name
                  ELSE DataFileName(dc.backup_id, dc.file_number),
     offset |-> dc.offset]

\* The (filename, offset) store_block returns.
StoreBlockResult(dc) ==
    IF dc.open
    THEN [filename |-> dc.current_file_name, offset |-> dc.offset]
    ELSE [filename |-> DataFileName(dc.backup_id, dc.file_number), offset |-> 0]

\* The collector after store_block(data): a data file is opened when none is,
\* the data is written, and the file is closed once it reaches data_file_size.
StoreBlockNext(dc, data) ==
    LET r == StoreBlockResult(dc)
        full == r.offset + Len(data) >= data_file_size
    IN [backup_id |-> dc.backup_id,
        file_number |-> IF dc.open THEN dc.file_number ELSE dc.file_number + 1,
        open |-> ~full,
        current_file_name |-> r.filename,
        offset |-> r.offset + Len(data)]

\* ----------------------------------------------------------- the pipeline

NoneItem == [none |-> TRUE, file_offset |-> 0, data |-> <<>>, fut |-> 0]

Item(file_offset, data, fut) ==
    [none |-> FALSE, file_offset |-> file_offset, data |-> data, fut |-> fut]

Waiting == [waiting |-> TRUE, meta |-> NoBlock, sha3 |-> sha3_512(<<>>), data |-> <<>>]

Result(meta, h, data) == [waiting |-> FALSE, meta |-> meta, sha3 |-> h, data |-> data]

IdleReader == [pc |-> "idle", file_offset |-> 0, bytes_read |-> 0]

IdleHasher == [pc |-> "idle", data |-> <<>>]

IdleWorker == [pc |-> "idle", item |-> NoneItem]

IdleStorer == [pc |-> "idle", item |-> NoneItem]

CurrentPath == walk_files(tree)[idx]

CurrentData == tree[CurrentPath].data

write_meta(record) ==
    /\ meta_file' = Append(meta_file, record)
    /\ meta_owner' = Append(meta_owner, IF pc = "pipeline" THEN CurrentPath ELSE "")

\* read_thread, one turn of its loop: file_offset = f.tell(), the read, and for
\* a block that is not empty the three puts with the block's new SimpleFuture;
\* a put waits while its queue is full.
ReaderRead ==
    /\ reader.pc = "read"
    /\ LET off == reader.bytes_read
           block == Slice(CurrentData, off, off + default_block_size)
       IN IF block = <<>>
          THEN /\ reader' = [reader EXCEPT !.file_offset = off, !.pc = "eof"]
               /\ UNCHANGED queueVars
          ELSE /\ Len(wfhash_queue) < wfhash_queue_size
               /\ Len(encrypt_queue) < worker_count + queue_extra
               /\ Len(store_queue) < worker_count + queue_extra
               /\ reader' = [reader EXCEPT !.file_offset = off,
                                           !.bytes_read = off + Len(block)]
               /\ futs' = Append(futs, Waiting)
               /\ wfhash_queue' = Append(wfhash_queue, Item(0, block, 0))
               /\ encrypt_queue' = Append(encrypt_queue, Item(0, block, Len(futs) + 1))
               /\ store_queue' = Append(store_queue, Item(off, block, Len(futs) + 1))
    /\ UNCHANGED <<constVars, driverVars, metaVars, storeVars, hasher, workers,
                   compressed_size, storer>>

\* A read_thread that puts one None for all workers.
ReaderEnd_OneNone ==
    /\ reader.pc = "eof"
    /\ Len(wfhash_queue) < wfhash_queue_size
    /\ Len(encrypt_queue) < worker_count + queue_extra
    /\ Len(store_queue) < worker_count + queue_extra
    /\ wfhash_queue' = Append(wfhash_queue, NoneItem)
    /\ encrypt_queue' = Append(encrypt_queue, NoneItem)
    /\ store_queue' = Append(store_queue, NoneItem)
    /\ reader' = [reader EXCEPT !.pc = "done"]
    /\ UNCHANGED <<constVars, driverVars, metaVars, storeVars, hasher, workers,
                   compressed_size, storer, futs>>

\* read_thread after the loop: None for the hasher, one None per worker, None
\* for the storer; return bytes_read.
ReaderEnd ==
    /\ reader.pc = "eof"
    /\ Len(wfhash_queue) < wfhash_queue_size
    /\ Len(encrypt_queue) + worker_count <= worker_count + queue_extra
    /\ Len(store_queue) < worker_count + queue_extra
    /\ wfhash_queue' = Append(wfhash_queue, NoneItem)
    /\ encrypt_queue' = encrypt_queue \o [i \in 1..worker_count |-> NoneItem]
    /\ store_queue' = Append(store_queue, NoneItem)
    /\ reader' = [reader EXCEPT !.pc = "done"]
    /\ UNCHANGED <<constVars, driverVars, metaVars, storeVars, hasher, workers,
                   compressed_size, storer, futs>>

\* whole_file_hash_thread: one wfhash_queue.get() and what follows it
HasherStep ==
    /\ hasher.pc = "run"
    /\ wfhash_queue # <<>>
    /\ wfhash_queue' = Tail(wfhash_queue)
    /\ hasher' = IF Head(wfhash_queue).none
                 THEN [hasher EXCEPT !.pc = "done"]
                 ELSE [hasher EXCEPT !.data = hasher.data \o Head(wfhash_queue).data]
    /\ UNCHANGED <<constVars, driverVars, metaVars, storeVars, reader, workers,
                   compressed_size, storer, encrypt_queue, store_queue, futs>>

\* compress_and_encrypt_thread: item = encrypt_queue.get()
WorkerGet(w) ==
    /\ workers[w].pc = "get"
    /\ encrypt_queue # <<>>
    /\ encrypt_queue' = Tail(encrypt_queue)
    /\ workers' = [workers EXCEPT
           ![w].item = Head(encrypt_queue),
           ![w].pc = IF Head(encrypt_queue).none THEN "done" ELSE "work"]
    /\ UNCHANGED <<constVars, driverVars, metaVars, storeVars, reader, hasher,
                   compressed_size, storer, wfhash_queue, store_queue, futs>>

\* A lookup that leaves the prior manifest out.
WorkerLookup_CacheOnly(h) ==
    IF h \in DOMAIN block_cache THEN block_cache[h] ELSE NoBlock

\* The index lookups of compress_and_encrypt_thread: the prior manifest first,
\* then the blocks of this run.
WorkerLookup(h) ==
    LET prev == get_block_by_sha3(previous_backup_meta, h)
    IN IF prev # NoBlock THEN prev
       ELSE IF h \in DOMAIN block_cache THEN block_cache[h] ELSE NoBlock

\* compress_and_encrypt_thread: the block is looked up and, when it is not
\* known, compressed and encrypted; the block's future gets the result.
WorkerProcess(w) ==
    /\ workers[w].pc = "work"
    /\ LET item == workers[w].item
           block_sha3 == sha3_512(item.data)
           existing == WorkerLookup(block_sha3)
       IN IF existing # NoBlock
          THEN /\ futs' = [futs EXCEPT ![item.fut] = Result(existing, block_sha3, <<>>)]
               /\ compressed_size' = compressed_size + existing.store_size
          ELSE LET enc == encrypt_aes(zstd_compress(item.data), aes_key,
                                      token_bytes(item.fut))
               IN /\ futs' = [futs EXCEPT ![item.fut] = Result(NoBlock, block_sha3, enc)]
                  /\ compressed_size' = compressed_size + Len(enc)
    /\ workers' = [workers EXCEPT ![w].pc = "get", ![w].item = NoneItem]
    /\ UNCHANGED <<constVars, driverVars, metaVars, storeVars, reader, hasher,
                   storer, wfhash_queue, encrypt_queue, store_queue>>

\* store_thread: item = store_queue.get()
StorerGet ==
    /\ storer.pc = "get"
    /\ store_queue # <<>>
    /\ store_queue' = Tail(store_queue)
    /\ storer' = [storer EXCEPT
           !.item = Head(store_queue),
           !.pc = IF Head(store_queue).none THEN "done" ELSE "await"]
    /\ UNCHANGED <<constVars, driverVars, metaVars, storeVars, reader, hasher,
                   workers, compressed_size, wfhash_queue, encrypt_queue, futs>>

\* A store_thread that trusts the worker's answer.
StorerLookup_NoRecheck(res) == res.meta

\* What store_thread takes for the block's known location: the worker's
\* answer, or else the entry of block_cache.
StorerLookup(res) ==
    IF res.meta # NoBlock THEN res.meta
    ELSE IF res.sha3 \in DOMAIN block_cache THEN block_cache[res.sha3] ELSE NoBlock

\* store_thread: encrypted_fut.result(), then either a record citing the known
\* location or store_block, the new block_cache entry and its record.
StorerStore ==
    /\ storer.pc = "await"
    /\ ~futs[storer.item.fut].waiting
    /\ LET item == storer.item
           res == futs[item.fut]
           existing == StorerLookup(res)
       IN IF existing # NoBlock
          THEN /\ write_meta(FileDataRecord(item.file_offset, Len(item.data), existing))
               /\ UNCHANGED storeVars
          ELSE LET r == StoreBlockResult(collector)
                   b == FileBlock(item.file_offset, Len(item.data), res.sha3, aes_key,
                                  r.filename, r.offset, Len(res.data))
               IN /\ collector' = StoreBlockNext(collector, res.data)
                  /\ objects' = [n \in DOMAIN objects \cup {r.filename} |->
                                    IF n = r.filename
                                    THEN (IF n \in DOMAIN objects THEN objects[n] ELSE <<>>)
                                         \o res.data
                                    ELSE objects[n]]
                  /\ store_log' = Append(store_log, res.sha3)
                  /\ block_cache' = [h \in DOMAIN block_cache \cup {res.sha3} |->
                                        IF h = res.sha3 THEN b ELSE block_cache[h]]
                  /\ write_meta(FileDataRecord(item.file_offset, Len(item.data), b))
    /\ storer' = [storer EXCEPT !.pc = "get", !.item = NoneItem]
    /\ UNCHANGED <<constVars, driverVars, reader, hasher, workers,
                   compressed_size, wfhash_queue, encrypt_queue, store_queue, futs>>

\* ------------------------------------------------------------- the driver

\* do_backup: the header record
WriteHeader ==
    /\ pc = "start"
    /\ write_meta(HeaderRecord(default_block_size))
    /\ pc' = "walk"
    /\ UNCHANGED <<constVars, idx, aes_key, next_key, queueVars, storeVars,
                   reader, hasher, workers, compressed_size, storer>>

\* do_backup: a directory of the walk
WalkDirectory ==
    /\ pc = "walk"
    /\ idx <= Len(walk_files(tree))
    /\ tree[CurrentPath].kind = "dir"
    /\ write_meta(DirectoryRecord(CurrentPath))
    /\ idx' = idx + 1
    /\ UNCHANGED <<constVars, pc, aes_key, next_key, queueVars, storeVars,
                   reader, hasher, workers, compressed_size, storer>>

\* do_backup: a file of the walk; backup_file_contents draws the file's key
\* and submits its threads.
WalkFile ==
    /\ pc = "walk"
    /\ idx <= Len(walk_files(tree))
    /\ tree[CurrentPath].kind = "file"
    /\ write_meta(FileRecord(CurrentPath))
    /\ pc' = "pipeline"
    /\ aes_key' = next_key
    /\ next_key' = next_key + 1
    /\ reader' = [IdleReader EXCEPT !.pc = "read"]
    /\ hasher' = [IdleHasher EXCEPT !.pc = "run"]
    /\ workers' = [w \in Workers |-> [IdleWorker EXCEPT !.pc = "get"]]
    /\ storer' = [IdleStorer EXCEPT !.pc = "get"]
    /\ compressed_size' = 0
    /\ wfhash_queue' = <<>>
    /\ encrypt_queue' = <<>>
    /\ store_queue' = <<>>
    /\ futs' = <<>>
    /\ UNCHANGED <<constVars, idx, storeVars>>

\* A driver that does not wait for store_thread.
PipelineJoined_NoStorer ==
    /\ reader.pc = "done"
    /\ hasher.pc = "done"
    /\ \A w \in Workers : workers[w].pc = "done"

\* backup_file_contents has the result of every thread.
PipelineJoined ==
    /\ reader.pc = "done"
    /\ hasher.pc = "done"
    /\ storer.pc = "done"
    /\ \A w \in Workers : workers[w].pc = "done"

\* backup_file_contents: with the result of every thread taken, file_summary
\* is written and do_backup goes on with the walk.
WriteSummary ==
    /\ pc = "pipeline"
    /\ PipelineJoined
    /\ write_meta(FileSummaryRecord(reader.bytes_read, compressed_size,
                                    sha1(hasher.data)))
    /\ pc' = "walk"
    /\ idx' = idx + 1
    /\ UNCHANGED <<constVars, aes_key, next_key, queueVars, storeVars, reader,
                   hasher, workers, compressed_size, storer>>

\* do_backup after the walk: the data collector is closed and the manifest is
\* encrypted and uploaded.
FinishBackup ==
    /\ pc = "walk"
    /\ idx > Len(walk_files(tree))
    /\ pc' = "done"
    /\ collector' = [collector EXCEPT !.open = FALSE]
    /\ UNCHANGED <<constVars, idx, aes_key, next_key, metaVars, queueVars,
                   block_cache, objects, store_log, reader, hasher, workers,
                   compressed_size, storer>>

\* ------------------------------------------- a thread of the pipeline fails

\* read_thread: f.read raises; the thread ends with the exception and puts
\* nothing more on the queues, the end markers included.
ReaderRaises ==
    /\ reader.pc = "read"
    /\ reader' = [reader EXCEPT !.pc = "failed"]
    /\ UNCHANGED <<constVars, driverVars, metaVars, queueVars, storeVars, hasher,
                   workers, compressed_size, storer>>

\* whole_file_hash_thread raises on a block it has taken from wfhash_queue.
HasherRaises ==
    /\ hasher.pc = "run"
    /\ wfhash_queue # <<>>
    /\ ~Head(wfhash_queue).none
    /\ wfhash_queue' = Tail(wfhash_queue)
    /\ hasher' = [hasher EXCEPT !.pc = "failed"]
    /\ UNCHANGED <<constVars, driverVars, metaVars, storeVars, reader, workers,
                   compressed_size, storer, encrypt_queue, store_queue, futs>>

\* compress_and_encrypt_thread raises on the block it holds: the except
\* clause logs and re-raises, the block's SimpleFuture gets neither a result
\* nor an exception.
WorkerRaises(w) ==
    /\ workers[w].pc = "work"
    /\ workers' = [workers EXCEPT ![w].pc = "failed"]
    /\ UNCHANGED <<constVars, driverVars, metaVars, queueVars, storeVars, reader,
                   hasher, compressed_size, storer>>

\* store_thread raises out of data_collector.store_block.
StorerRaises ==
    /\ storer.pc = "await"
    /\ ~futs[storer.item.fut].waiting
    /\ StorerLookup(futs[storer.item.fut]) = NoBlock
    /\ storer' = [storer EXCEPT !.pc = "failed"]
    /\ UNCHANGED <<constVars, driverVars, metaVars, queueVars, storeVars, reader,
                   hasher, workers, compressed_size>>

\* A thread of the pipeline has ended with an exception.
ThreadFailed ==
    \/ reader.pc = "failed"
    \/ hasher.pc = "failed"
    \/ storer.pc = "failed"
    \/ \E w \in Workers : workers[w].pc = "failed"

\* The executor of backup_file_contents has no running thread: leaving the
\* with block waits for that (shutdown(wait=True)).
PipelineEnded ==
    /\ reader.pc \in {"done", "failed"}
    /\ hasher.pc \in {"done", "failed"}
    /\ storer.pc \in {"done", "failed"}
    /\ \A w \in Workers : workers[w].pc \in {"done", "failed"}

\* backup_file_contents raises: a fut.result() has raised the exception of
\* its thread and the with block of the executor has been left.
PipelineRaises ==
    /\ pc = "pipeline"
    /\ ThreadFailed
    /\ PipelineEnded
    /\ pc' = "raised"
    /\ UNCHANGED <<constVars, idx, aes_key, next_key, metaVars, queueVars,
                   storeVars, reader, hasher, workers, compressed_size, storer>>

\* do_backup has not started.
RunInit ==
    /\ backup_id = 1
    /\ pc = "start"
    /\ idx = 1
    /\ meta_file = <<>>
    /\ meta_owner = <<>>
    /\ aes_key = 0
    /\ next_key = 2
    /\ reader = IdleReader
    /\ hasher = IdleHasher
    /\ workers = [w \in Workers |-> IdleWorker]
    /\ compressed_size = 0
    /\ storer = IdleStorer
    /\ wfhash_queue = <<>>
    /\ encrypt_queue = <<>>
    /\ store_queue = <<>>
    /\ futs = <<>>
    /\ block_cache = [h \in {} |-> NoBlock]
    /\ collector = NewCollector(1)
    /\ objects = [n \in {} |-> <<>>]
    /\ store_log = <<>>

BackupInit ==
    /\ tree \in Trees
    /\ previous_backup_meta \in PrevMetas
    /\ RunInit

\* ------------------------------------------------- S3DataCollectorFile

\* S3DataCollectorFile.__init__; create_fut is the submitted
\* _create_multipart_upload.  mpu is the multipart upload as the store has
\* it: "none", "open", "completed" or "aborted".
\* complete_call is the request of complete_multipart_upload once it is made,
\* finished the part numbers in the order their uploads returned.
NoCall == [Parts |-> <<>>, ChecksumSHA1 |-> sha1(<<-1>>)]

File_init(key) ==
    [key |-> key, upload_id |-> 0, parts |-> <<>>, part_buffer |-> <<>>,
     waiting_upload_count |-> 0, create_fut |-> "pending",
     close_task |-> "none", close_fut |-> "none",
     closed_successfully |-> FALSE, complete_failed |-> FALSE, mpu |-> "none",
     complete_call |-> NoCall, finished |-> <<>>, finish_tasks |-> <<>>]

\* The result of a part's future that has none yet.
NoResult == [ETag |-> [Key |-> NoName, PartNumber |-> 0, Body |-> <<>>],
             checksum |-> sha1(<<-1>>)]

\* The ETag upload_part answers with: it stands for the request it answers.
ETag(key, part_number, body) ==
    [Key |-> key, PartNumber |-> part_number, Body |-> body]

\* _schedule_upload: _upload is submitted with the buffer's bytes and the
\* part number len(parts) + 1.
File_schedule_upload(f) ==
    [f EXCEPT !.waiting_upload_count = @ + 1,
              !.parts = Append(@, [part_data |-> f.part_buffer,
                                   part_number |-> Len(f.parts) + 1,
                                   st |-> "queued", result |-> NoResult]),
              !.part_buffer = <<>>]

\* write, after its wait for waiting_upload_count < 3
File_write(f, data) ==
    LET g == [f EXCEPT !.part_buffer = @ \o data]
    IN IF Len(g.part_buffer) >= part_size THEN File_schedule_upload(g) ELSE g

\* A close that schedules the buffer whatever it holds.
File_close_Always(f) ==
    LET g == File_schedule_upload(f)
    IN [g EXCEPT !.close_task = "complete", !.close_fut = "pending",
                 !.finish_tasks = Append(@, "complete")]

\* close: what is left in the buffer is scheduled and _complete is submitted
\* to finish_pool.
File_close(f) ==
    LET g == IF f.part_buffer # <<>> THEN File_schedule_upload(f) ELSE f
    IN [g EXCEPT !.close_task = "complete", !.close_fut = "pending",
                 !.finish_tasks = Append(@, "complete")]

\* An __exit__ that submits _abort whether the file was closed or not.
File_exit_Always(f) ==
    [f EXCEPT !.close_task = "abort", !.close_fut = "pending",
              !.finish_tasks = Append(@, "abort")]

\* __exit__: a file that was not closed gets _abort for its finish task.
File_exit(f) ==
    IF f.close_fut = "none"
    THEN [f EXCEPT !.close_task = "abort", !.close_fut = "pending",
                   !.finish_tasks = Append(@, "abort")]
    ELSE f

\* All bytes written to the file.
RECURSIVE PartsData(_)
PartsData(parts) ==
    IF parts = <<>> THEN <<>> ELSE Head(parts).part_data \o PartsData(Tail(parts))

File_written(f) == PartsData(f.parts) \o f.part_buffer

PartsResolved(f) == \A p \in DOMAIN f.parts : f.parts[p].st \in {"ok", "failed"}

\* The upload tasks the upload pool is running.
RunningUploads ==
    {fp \in UNION {{<<f, p>> : p \in DOMAIN files[f].parts} : f \in DOMAIN files} :
        files[fp[1]].parts[fp[2]].st = "started"}

\* ------------------------------------------------------- S3DataCollector

\* The blocks a producer hands over: block k of the calls is k, n times.
StoreData(k) == {[i \in 1..n |-> k] : n \in 1..MaxStoreLen}

\* store_block(data)
StoreBlock ==
    /\ backend = "s3"
    /\ dc_pc = "run"
    /\ Len(store_calls) < MaxCalls
    /\ \E data \in StoreData(Len(store_calls) + 1) :
       LET r == StoreBlockResult(collector)
           cur == IF collector.open THEN Len(files) ELSE Len(files) + 1
           f0 == IF collector.open THEN files[cur] ELSE File_init(r.filename)
           f1 == File_write(f0, data)
           next == StoreBlockNext(collector, data)
           f2 == IF next.open THEN f1 ELSE File_close(f1)
       IN /\ f0.waiting_upload_count < max_waiting_uploads
          /\ files' = IF collector.open THEN [files EXCEPT ![cur] = f2]
                      ELSE Append(files, f2)
          /\ collector' = next
          /\ store_calls' = Append(store_calls,
                 [data |-> data, filename |-> r.filename, offset |-> r.offset])
    /\ UNCHANGED <<backend, dc_pc, meta_uploaded, fb, fb_dir>>

\* _create_multipart_upload, run by the one thread of create_pool
CreateMultipartUpload(f) ==
    /\ files[f].create_fut = "pending"
    /\ \A g \in 1..(f - 1) : files[g].create_fut # "pending"
    /\ \E ok \in BOOLEAN :
          files' = IF ok
                   THEN [files EXCEPT ![f].create_fut = "ok", ![f].upload_id = f,
                                      ![f].mpu = "open"]
                   ELSE [files EXCEPT ![f].create_fut = "failed"]
    /\ UNCHANGED <<backend, collector, dc_pc, store_calls, meta_uploaded, fb, fb_dir>>

\* _upload is taken up by a thread of upload_pool: waiting_upload_count -= 1
UploadStart(f, p) ==
    /\ files[f].parts[p].st = "queued"
    /\ Cardinality(RunningUploads) < upload_pool_size
    /\ \A q \in 1..(p - 1) : files[f].parts[q].st # "queued"
    /\ \A g \in 1..(f - 1) : \A q \in DOMAIN files[g].parts :
          files[g].parts[q].st # "queued"
    /\ files' = [files EXCEPT ![f].parts[p].st = "started",
                              ![f].waiting_upload_count = @ - 1]
    /\ UNCHANGED <<backend, collector, dc_pc, store_calls, meta_uploaded, fb, fb_dir>>

\* _upload from create_fut.result() on: it raises when the create call failed
\* or upload_id is unset, and else upload_part returns or fails.
UploadPart(f, p) ==
    /\ files[f].parts[p].st = "started"
    /\ files[f].create_fut # "pending"
    /\ \E ok \in BOOLEAN :
          LET part == files[f].parts[p] IN
          files' = IF files[f].create_fut = "ok" /\ files[f].upload_id # 0 /\ ok
                   THEN [files EXCEPT
                           ![f].parts[p].st = "ok",
                           ![f].parts[p].result =
                               [ETag |-> ETag(files[f].key, part.part_number,
                                              part.part_data),
                                checksum |-> sha1(part.part_data)],
                           ![f].finished = Append(@, part.part_number)]
                   ELSE [files EXCEPT ![f].parts[p].st = "failed"]
    /\ UNCHANGED <<backend, collector, dc_pc, store_calls, meta_uploaded, fb, fb_dir>>

\* The finish task of the file is the one the thread of finish_pool runs.
FinishTurn(f) ==
    /\ files[f].close_fut = "pending"
    /\ \A g \in 1..(f - 1) : files[g].close_fut # "pending"

\* _complete raises out of create_fut.result() or out of the first failed
\* fut.result() of the parts.
CompleteRaises(f) ==
    \/ f.create_fut = "failed"
    \/ /\ f.create_fut = "ok"
       /\ \E p \in DOMAIN f.parts :
             /\ f.parts[p].st = "failed"
             /\ \A q \in 1..(p - 1) : f.parts[q].st = "ok"

\* A request whose part list takes the results in the order the uploads
\* returned.
CompleteCall_FinishOrder(f) ==
    LET resolved_parts == [i \in DOMAIN f.finished |-> f.parts[f.finished[i]].result]
    IN [Parts |-> [i \in DOMAIN resolved_parts |->
                      [PartNumber |-> i,
                       ETag |-> resolved_parts[i].ETag,
                       ChecksumSHA1 |-> resolved_parts[i].checksum]],
        ChecksumSHA1 |-> sha1([i \in DOMAIN resolved_parts |->
                                  resolved_parts[i].checksum])]

\* _complete's request: resolved_parts are the results of the futures of
\* parts in list order, numbered by enumerate from 1; the aggregate checksum
\* is the SHA-1 of the joined part digests.
CompleteCall(f) ==
    LET resolved_parts == [i \in DOMAIN f.parts |-> f.parts[i].result]
    IN [Parts |-> [i \in DOMAIN resolved_parts |->
                      [PartNumber |-> i,
                       ETag |-> resolved_parts[i].ETag,
                       ChecksumSHA1 |-> resolved_parts[i].checksum]],
        ChecksumSHA1 |-> sha1([i \in DOMAIN resolved_parts |->
                                  resolved_parts[i].checksum])]

\* A failed completion that leaves the multipart upload as it is.
File_complete_failed_NoAbort(f) ==
    [f EXCEPT !.complete_failed = TRUE, !.close_fut = "ok"]

\* _complete's except branch: complete_multipart_upload failed, the error is
\* logged, abort_multipart_upload is called and the task returns.
File_complete_failed(f) ==
    [f EXCEPT !.mpu = "aborted", !.complete_failed = TRUE, !.close_fut = "ok"]

\* _complete
Complete(f) ==
    /\ FinishTurn(f)
    /\ files[f].close_task = "complete"
    /\ \/ /\ CompleteRaises(files[f])
          /\ files' = [files EXCEPT ![f].close_fut = "failed"]
       \/ /\ files[f].create_fut = "ok"
          /\ \A p \in DOMAIN files[f].parts : files[f].parts[p].st = "ok"
          /\ \E ok \in BOOLEAN :
                LET called == [files EXCEPT ![f].complete_call = CompleteCall(files[f])]
                IN files' = IF ok
                            THEN [called EXCEPT ![f].mpu = "completed",
                                                ![f].closed_successfully = TRUE,
                                                ![f].close_fut = "ok"]
                            ELSE [called EXCEPT ![f] = File_complete_failed(@)]
    /\ UNCHANGED <<backend, collector, dc_pc, store_calls, meta_uploaded, fb, fb_dir>>

\* _abort
Abort(f) ==
    /\ FinishTurn(f)
    /\ files[f].close_task = "abort"
    /\ files' = [files EXCEPT
           ![f].mpu = IF files[f].upload_id # 0 THEN "aborted" ELSE @,
           ![f].upload_id = 0,
           ![f].close_fut = "ok"]
    /\ UNCHANGED <<backend, collector, dc_pc, store_calls, meta_uploaded, fb, fb_dir>>

\* The pools have run every task and every finish task has its result.
StackClosed ==
    \A f \in DOMAIN files :
        /\ files[f].create_fut # "pending"
        /\ PartsResolved(files[f])
        /\ files[f].close_fut \in {"ok", "failed"}

\* S3DataCollector.close() up to the wait of stack.close(): the current file
\* is closed, and the stack calls __exit__ of every file.
CollectorClose ==
    /\ backend = "s3"
    /\ dc_pc = "run"
    /\ dc_pc' = "closing"
    /\ collector' = [collector EXCEPT !.open = FALSE]
    /\ LET closed == IF collector.open
                     THEN [files EXCEPT ![Len(files)] = File_close(@)]
                     ELSE files
       IN  files' = [f \in DOMAIN closed |-> File_exit(closed[f])]
    /\ UNCHANGED <<backend, store_calls, meta_uploaded, fb, fb_dir>>

\* A close that raises out of the results of the finish tasks only.
CloseRaises_FutOnly(fs) == \E f \in DOMAIN fs : fs[f].close_fut = "failed"

\* close() raises: out of a file's close_fut.result(), or out of the assert
\* over closed_successfully, an attribute only a successful _complete sets.
CloseRaises(fs) ==
    \/ \E f \in DOMAIN fs : fs[f].close_fut = "failed"
    \/ \E f \in DOMAIN fs : ~fs[f].closed_successfully

\* close() from stack.close() on
CollectorCloseReturn ==
    /\ dc_pc = "closing"
    /\ StackClosed
    /\ dc_pc' = IF CloseRaises(files) THEN "raised" ELSE "closed"
    /\ UNCHANGED <<backend, collector, files, store_calls, meta_uploaded, fb, fb_dir>>

\* The with block of the collector is left by an exception before close():
\* __exit__ of every file.
CollectorExit ==
    /\ backend = "s3"
    /\ dc_pc = "run"
    /\ dc_pc' = "exiting"
    /\ collector' = [collector EXCEPT !.open = FALSE]
    /\ files' = [f \in DOMAIN files |-> File_exit(files[f])]
    /\ UNCHANGED <<backend, store_calls, meta_uploaded, fb, fb_dir>>

CollectorExitReturn ==
    /\ dc_pc = "exiting"
    /\ StackClosed
    /\ dc_pc' = "exited"
    /\ UNCHANGED <<backend, collector, files, store_calls, meta_uploaded, fb, fb_dir>>

\* do_backup after data_collector.close() has returned: the manifest is
\* uploaded as baq.<backup_id>.meta.
UploadMeta ==
    /\ dc_pc = "closed"
    /\ ~meta_uploaded
    /\ meta_uploaded' = TRUE
    /\ UNCHANGED <<backend, collector, files, dc_pc, store_calls, fb, fb_dir>>

\* ------------------------------------------------------------ FileBackend

\* f'baq.{backup_id}.data.{number:05d}'
FileBackendName(id, number) == [backup_id |-> id, number |-> number]

FileBackend_init ==
    [current_data_file |-> FALSE, current_data_file_name |-> NoName,
     next_data_file_number |-> 0, pos |-> 0]

\* FileBackend.write_data_chunk(backup_id, chunk) on the backend b and its
\* directory dir: the backend and the directory after it, and the
\* DataChunkInfo it returns.
FileBackend_write_data_chunk(b, dir, id, chunk) ==
    LET rolled == b.current_data_file /\ b.pos > file_backend_data_file_size
        fresh == ~b.current_data_file \/ rolled
        name == IF fresh THEN FileBackendName(id, b.next_data_file_number)
                ELSE b.current_data_file_name
        df_pos == IF fresh THEN 0 ELSE b.pos
    IN [fb |-> [current_data_file |-> TRUE,
                current_data_file_name |-> name,
                next_data_file_number |->
                    IF fresh THEN b.next_data_file_number + 1
                    ELSE b.next_data_file_number,
                pos |-> df_pos + Len(chunk)],
        dir |-> [n \in DOMAIN dir \cup {name} |->
                    IF n = name
                    THEN (IF fresh THEN <<>> ELSE dir[n]) \o chunk
                    ELSE dir[n]],
        info |-> [name |-> name, offset |-> df_pos, size |-> Len(chunk)]]

\* write_data_chunk(backup_id, chunk)
WriteDataChunk ==
    /\ backend = "file"
    /\ Len(store_calls) < MaxCalls
    /\ \E chunk \in StoreData(Len(store_calls) + 1) :
       LET w == FileBackend_write_data_chunk(fb, fb_dir, collector.backup_id, chunk)
       IN /\ fb' = w.fb
          /\ fb_dir' = w.dir
          /\ store_calls' = Append(store_calls,
                 [data |-> chunk, filename |-> w.info.name, offset |-> w.info.offset])
    /\ UNCHANGED <<backend, collector, files, dc_pc, meta_uploaded>>

\* close_data_file()
CloseDataFile ==
    /\ backend = "file"
    /\ fb.current_data_file
    /\ fb' = [fb EXCEPT !.current_data_file = FALSE]
    /\ UNCHANGED <<backend, collector, files, dc_pc, store_calls, meta_uploaded, fb_dir>>

\* FileBackend.read_data_chunk(filename, offset, size)
FileBackend_read_data_chunk(dir, filename, offset, size) ==
    Slice(dir[filename], offset, offset + size)

\* ------------------------------------------------------------ ChunkAdapter

\* zlib.compress: a header byte and the runs of the data, each as its byte
\* and its length.
RECURSIVE Runs(_)
Runs(data) ==
    IF data = <<>> THEN <<>>
    ELSE LET n == CHOOSE k \in 1..Len(data) :
                     /\ \A i \in 1..k : data[i] = data[1]
                     /\ k < Len(data) => data[k + 1] # data[1]
         IN <<data[1], n>> \o Runs(SubSeq(data, n + 1, Len(data)))

zlib_compress(data) == <<120>> \o Runs(data)

RECURSIVE Expand(_)
Expand(rs) ==
    IF Len(rs) < 2 THEN <<>>
    ELSE [i \in 1..rs[2] |-> rs[1]] \o Expand(SubSeq(rs, 3, Len(rs)))

zlib_decompress(data) == Expand(Tail(data))

\* The block of the cipher and of the PKCS7 padding, and os.urandom of an
\* initialisation vector.
AesBlock == 2

InitVectors == {<<3, 5>>, <<250, 255>>}

PKCS7_pad(data) ==
    LET n == AesBlock - (Len(data) % AesBlock) IN data \o [i \in 1..n |-> n]

PKCS7_unpad(data) == SubSeq(data, 1, Len(data) - data[Len(data)])

\* CBC: a byte of the ciphertext is made of the byte of the plaintext, the
\* key and the byte of the ciphertext before it.
RECURSIVE cbc_encrypt(_, _, _)
cbc_encrypt(plain, key, before) ==
    IF plain = <<>> THEN <<>>
    ELSE LET c == (Head(plain) + key + before) % 256
         IN <<c>> \o cbc_encrypt(Tail(plain), key, c)

cbc_decrypt(cipher, key, iv) ==
    [i \in 1..Len(cipher) |->
        (cipher[i] - key - (IF i = 1 THEN iv[Len(iv)] ELSE cipher[i - 1]) + 512) % 256]

encrypt_aes_cbc(data, key, iv) == iv \o cbc_encrypt(PKCS7_pad(data), key, iv[Len(iv)])

decrypt_aes_cbc(data, key) ==
    LET iv == SubSeq(data, 1, AesBlock)
    IN PKCS7_unpad(cbc_decrypt(SubSeq(data, AesBlock + 1, Len(data)), key, iv))

\* encryption_key=None
NoKey == -1

\* A _compress_chunk that flags the compressed form as not compressed.
compress_chunk_WrongFlag(chunk) ==
    LET chunk_z == zlib_compress(chunk)
    IN IF Len(chunk_z) < Len(chunk) THEN <<0, chunk_z>> ELSE <<0, chunk>>

\* _compress_chunk: the flag and the chunk
compress_chunk(chunk) ==
    LET chunk_z == zlib_compress(chunk)
    IN IF Len(chunk_z) < Len(chunk) THEN <<1, chunk_z>> ELSE <<0, chunk>>

\* _decompress_chunk; an unknown flag raises
decompress_chunk(compression_flag, chunk) ==
    IF compression_flag = 0 THEN chunk
    ELSE IF compression_flag = 1 THEN zlib_decompress(chunk)
    ELSE <<"raised">>

encrypt_chunk(chunk, encryption_key, iv) ==
    IF encryption_key = NoKey THEN <<0, chunk>>
    ELSE <<1, encrypt_aes_cbc(chunk, encryption_key, iv)>>

decrypt_chunk(encryption_flag, chunk, encryption_key) ==
    IF encryption_flag = 0 THEN chunk
    ELSE IF encryption_flag = 1 THEN decrypt_aes_cbc(chunk, encryption_key)
    ELSE <<"raised">>

\* bytes.fromhex(compression_flag + encryption_flag), and bytes.hex() back
flag_byte(compression_flag, encryption_flag) == 16 * compression_flag + encryption_flag

\* The bytes ChunkAdapter.write_data_chunk hands to the backend.
ChunkAdapter_stored(chunk, encryption_key, iv) ==
    LET c == compress_chunk(chunk)
        e == encrypt_chunk(c[2], encryption_key, iv)
    IN <<flag_byte(c[1], e[1])>> \o e[2]

\* ChunkAdapter.read_data_chunk(name, offset, size, encryption_key)
ChunkAdapter_read_data_chunk(dir, name, offset, size, encryption_key) ==
    LET raw_chunk == FileBackend_read_data_chunk(dir, name, offset, size)
        compression_flag == raw_chunk[1] \div 16
        encryption_flag == raw_chunk[1] % 16
    IN decompress_chunk(compression_flag,
           decrypt_chunk(encryption_flag, Tail(raw_chunk), encryption_key))

\* The chunks and keys of the calls: a chunk that zlib makes shorter and
\* chunks that it does not.
AdapterChunks == {<<>>, <<0>>, <<1, 0>>, <<1, 1, 1, 1>>}

AdapterKeys == {NoKey, 7}

\* ChunkAdapter.write_data_chunk(backup_id, chunk, encryption_key)
AdapterWriteDataChunk ==
    /\ backend = "adapter"
    /\ Len(store_calls) < MaxCalls
    /\ \E chunk \in AdapterChunks, key \in AdapterKeys, iv \in InitVectors :
       LET w == FileBackend_write_data_chunk(fb, fb_dir, collector.backup_id,
                                             ChunkAdapter_stored(chunk, key, iv))
       IN /\ fb' = w.fb
          /\ fb_dir' = w.dir
          /\ store_calls' = Append(store_calls,
                 [chunk |-> chunk, encryption_key |-> key, info |-> w.info])
    /\ UNCHANGED <<backend, collector, files, dc_pc, meta_uploaded>>

\* ChunkAdapter.close_data_file()
AdapterCloseDataFile ==
    /\ backend = "adapter"
    /\ fb.current_data_file
    /\ fb' = [fb EXCEPT !.current_data_file = FALSE]
    /\ UNCHANGED <<backend, collector, files, dc_pc, store_calls, meta_uploaded, fb_dir>>

\* ------------------------------------------------ do_backup as one step

\* backup_file_contents on the blocks of a file from offset off on, each
\* block taken through compress_and_encrypt_thread and store_thread before
\* the next.  st holds records, block_cache, collector, objects,
\* compressed_size.
RECURSIVE RunBlocks(_, _, _, _, _)
RunBlocks(data, off, key, prev, st) ==
    IF off >= Len(data) THEN st
    ELSE
    LET block == Slice(data, off, off + st.block_size)
        h == sha3_512(block)
        before == get_block_by_sha3(prev, h)
        known == IF before # NoBlock THEN before
                 ELSE IF h \in DOMAIN st.block_cache THEN st.block_cache[h]
                 ELSE NoBlock
        enc == encrypt_aes(zstd_compress(block), key,
                           token_bytes(off \div st.block_size + 1))
        r == StoreBlockResult(st.collector)
        b == FileBlock(off, Len(block), h, key, r.filename, r.offset, Len(enc))
    IN RunBlocks(data, off + Len(block), key, prev,
          IF known # NoBlock
          THEN [st EXCEPT
                   !.records = Append(@, FileDataRecord(off, Len(block), known)),
                   !.compressed_size = @ + known.store_size]
          ELSE [st EXCEPT
                   !.records = Append(@, FileDataRecord(off, Len(block), b)),
                   !.compressed_size = @ + Len(enc),
                   !.collector = StoreBlockNext(@, enc),
                   !.block_cache = [x \in DOMAIN @ \cup {h} |->
                                       IF x = h THEN b ELSE @[x]],
                   !.objects = [n \in DOMAIN @ \cup {r.filename} |->
                                   IF n = r.filename
                                   THEN (IF n \in DOMAIN @ THEN @[n] ELSE <<>>) \o enc
                                   ELSE @[n]]])

\* The loop of do_backup over walk_files from entry i on.
RECURSIVE RunWalk(_, _, _, _)
RunWalk(t, i, prev, st) ==
    IF i > Len(walk_files(t)) THEN st
    ELSE
    LET path == walk_files(t)[i]
    IN IF t[path].kind = "dir"
       THEN RunWalk(t, i + 1, prev,
                [st EXCEPT !.records = Append(@, DirectoryRecord(path))])
       ELSE
       LET s0 == [st EXCEPT !.records = Append(@, FileRecord(path)),
                            !.compressed_size = 0]
           s1 == RunBlocks(t[path].data, 0, st.next_key, prev, s0)
       IN RunWalk(t, i + 1, prev,
              [s1 EXCEPT
                  !.records = Append(@, FileSummaryRecord(
                      Len(t[path].data), s1.compressed_size, sha1(t[path].data))),
                  !.next_key = @ + 1])

\* A run that cuts blocks of the default_block_size of its process.
BackupRun_Configured(t, prev, id, key, configured) ==
    RunWalk(t, 1, prev,
        [records |-> <<HeaderRecord(configured)>>,
         block_size |-> configured,
         block_cache |-> [h \in {} |-> NoBlock],
         collector |-> NewCollector(id),
         objects |-> [n \in {} |-> <<>>],
         compressed_size |-> 0,
         next_key |-> key])

\* do_backup of tree t with the cached manifest prev, the backup id, the
\* next key and the default_block_size of the process: block_size is the
\* cached manifest's when there is one.
BackupRun(t, prev, id, key, configured) ==
    LET block_size == IF prev.present THEN prev.block_size ELSE configured IN
    RunWalk(t, 1, prev,
        [records |-> <<HeaderRecord(block_size)>>,
         block_size |-> block_size,
         block_cache |-> [h \in {} |-> NoBlock],
         collector |-> NewCollector(id),
         objects |-> [n \in {} |-> <<>>],
         compressed_size |-> 0,
         next_key |-> key])

\* ------------------------------------------------------- BackupMetaReader

\* The records of a file record's file: from it to its file_summary.
FileRecordsEnd(records, i) ==
    CHOOSE j \in (i + 1)..Len(records) :
        /\ records[j].kind = "file_summary"
        /\ \A k \in (i + 1)..(j - 1) : records[k].kind # "file_summary"

BlockOfRecord(fd) ==
    FileBlock(fd.offset, fd.size, fd.sha3, fd.aes_key, fd.store_file,
              fd.store_offset, fd.store_size)

\* BackupMetaReader of backup.py and of helpers/metadata_file.py: the first
\* raises on a directory record, the second gives contains_only_single_file.
BackupMetaReader(records, impl) ==
    LET D == {i \in DOMAIN records : records[i].kind = "directory"}
        F == {i \in DOMAIN records : records[i].kind = "file"}
        B == {i \in DOMAIN records : records[i].kind = "file_data"}
    IN [raised |-> impl = "backup" /\ D # {},
        block_size |-> records[1].block_size,
        directories |-> {records[i].path : i \in D},
        files |-> [p \in {records[i].path : i \in F} |->
            LET i == CHOOSE k \in F : records[k].path = p
                j == FileRecordsEnd(records, i)
            IN [blocks |-> [k \in 1..(j - i - 1) |-> BlockOfRecord(records[i + k])],
                original_size |-> records[j].size,
                original_sha1 |-> records[j].sha1]],
        blocks |-> [h \in {records[i].sha3 : i \in B} |->
            BlockOfRecord(records[
                CHOOSE i \in B : /\ records[i].sha3 = h
                                 /\ \A k \in B : records[k].sha3 = h => k <= i])],
        has_contains_only_single_file |-> impl = "metadata_file",
        contains_only_single_file |->
            D = {} /\ Cardinality(F) = 1]

\* The reader as it runs over the records of a file, whatever they are.
Raised == [op |-> "raised", raised |-> TRUE]

Put(f, k, v) == [x \in DOMAIN f \cup {k} |-> IF x = k THEN v ELSE f[x]]

\* DirectoryMeta of a directory record.
DirectoryMeta(d) ==
    [st_mtime_ns |-> int(d.st_mtime_ns), st_atime_ns |-> int(d.st_atime_ns),
     st_mode |-> int8(d.st_mode), st_uid |-> d.st_uid, st_gid |-> d.st_gid,
     owner |-> d.owner, group |-> d.group]

\* FileMeta of a file record, its blocks and its file_summary.
FileMeta(f, file_blocks, file_summary) ==
    [blocks |-> file_blocks,
     st_mtime_ns |-> int(f.st_mtime_ns), st_atime_ns |-> int(f.st_atime_ns),
     st_mode |-> int8(f.st_mode), st_uid |-> f.st_uid, st_gid |-> f.st_gid,
     owner |-> f.owner, group |-> f.group,
     original_size |-> file_summary.size, original_sha1 |-> file_summary.sha1]

\* The loop over the records of a file with an end of the records taken for
\* the end of the file.
RECURSIVE ReadFileRecords_EndIsSummary(_, _, _)
ReadFileRecords_EndIsSummary(records, i, file_blocks) ==
    IF i > Len(records)
    THEN [raised |-> FALSE, next |-> i, file_blocks |-> file_blocks,
          file_summary |-> [size |-> 0, sha1 |-> sha1(<<>>)]]
    ELSE IF records[i].kind = "file_data"
    THEN ReadFileRecords_EndIsSummary(records, i + 1,
             Append(file_blocks, BlockOfRecord(records[i])))
    ELSE IF records[i].kind = "file_summary"
    THEN [raised |-> FALSE, next |-> i + 1, file_blocks |-> file_blocks,
          file_summary |-> records[i]]
    ELSE [raised |-> TRUE]

\* The loop over the records of a file: file_data records up to the
\* file_summary; next(records) raises at the end of the records.
RECURSIVE ReadFileRecords(_, _, _)
ReadFileRecords(records, i, file_blocks) ==
    IF i > Len(records) THEN [raised |-> TRUE]
    ELSE IF records[i].kind = "file_data"
    THEN ReadFileRecords(records, i + 1,
             Append(file_blocks, BlockOfRecord(records[i])))
    ELSE IF records[i].kind = "file_summary"
    THEN [raised |-> FALSE, next |-> i + 1, file_blocks |-> file_blocks,
          file_summary |-> records[i]]
    ELSE [raised |-> TRUE]

RECURSIVE PutBlocks(_, _, _)
PutBlocks(blocks, file_blocks, n) ==
    IF n > Len(file_blocks) THEN blocks
    ELSE PutBlocks(Put(blocks, file_blocks[n].sha3, file_blocks[n]),
                   file_blocks, n + 1)

\* The loop over the records after the header.  The reader of backup.py
\* takes a directory's times from f, which is no record there, and passes
\* owner and group to intern, which takes no None.
RECURSIVE ReadRecords(_, _, _, _)
ReadRecords(records, i, impl, self) ==
    IF i > Len(records) THEN self
    ELSE IF records[i].kind = "directory"
    THEN IF impl = "backup" THEN Raised
         ELSE ReadRecords(records, i + 1, impl,
                  [self EXCEPT !.directories =
                      Put(@, records[i].path, DirectoryMeta(records[i]))])
    ELSE IF records[i].kind = "file"
    THEN LET f == records[i]
             rd == ReadFileRecords(records, i + 1, <<>>)
         IN  IF rd.raised THEN Raised
             ELSE IF impl = "backup" /\ (f.owner = None \/ f.group = None)
             THEN Raised
             ELSE ReadRecords(records, rd.next, impl,
                      [self EXCEPT
                          !.files = Put(@, f.path,
                                        FileMeta(f, rd.file_blocks, rd.file_summary)),
                          !.blocks = PutBlocks(@, rd.file_blocks, 1)])
    ELSE Raised

\* BackupMetaReader(meta_path) of a file with these records, by the class of
\* backup.py or of helpers/metadata_file.py.
BackupMetaReader_init(records, impl) ==
    IF records = <<>> THEN Raised
    ELSE IF records[1].kind # "baq_backup" THEN Raised
    ELSE IF records[1].format_version # 1 THEN Raised
    ELSE LET self == ReadRecords(records, 2, impl,
                 [op |-> "returned", raised |-> FALSE,
                  block_size |-> records[1].block_size,
                  directories |-> <<>>, files |-> <<>>, blocks |-> <<>>])
         IN  self

\* --------------------------------------------------------------- do_restore

\* Python's f.seek(offset); f.write(data) on a file of bytes old.
WriteAt(old, offset, data) ==
    [i \in 1..(IF Len(old) > offset + Len(data) THEN Len(old) ELSE offset + Len(data)) |->
        IF i > offset /\ i <= offset + Len(data) THEN data[i - offset]
        ELSE IF i <= Len(old) THEN old[i] ELSE 0]

\* write_restore_block: the block as fetched decrypts and decompresses to
\* bytes with the block's sha3.
BlockData(b) ==
    zstd_decompress(decrypt_aes(
        Slice(remote_data[b.store_file], b.store_offset, b.store_offset + b.store_size),
        b.aes_key))

BlockFetchable(b) ==
    /\ b.store_file \in DOMAIN remote_data
    /\ sha3_512(BlockData(b)) = b.sha3

\* The bytes of a restored file once blocks 1..n are written.
RECURSIVE RestoredBytes(_, _)
RestoredBytes(blocks, n) ==
    IF n = 0 THEN <<>>
    ELSE WriteAt(RestoredBytes(blocks, n - 1), blocks[n].offset, BlockData(blocks[n]))

\* do_restore of the manifest records to a path that does not exist
\* ("absent") or is an empty directory ("empty_dir").
RestoreResult(records, target, impl) ==
    LET meta == BackupMetaReader(records, impl)
        single == meta.contains_only_single_file
        written == [p \in DOMAIN meta.files |->
                       RestoredBytes(meta.files[p].blocks, Len(meta.files[p].blocks))]
    IN IF meta.raised \/ ~meta.has_contains_only_single_file
       THEN [status |-> "raised", kind |-> "none", tree |-> [p \in Paths |-> NoEntry]]
       ELSE IF \E p \in DOMAIN meta.files :
                  \/ \E k \in DOMAIN meta.files[p].blocks :
                        ~BlockFetchable(meta.files[p].blocks[k])
                  \/ Len(written[p]) # meta.files[p].original_size
                  \/ sha1(written[p]) # meta.files[p].original_sha1
       THEN [status |-> "raised", kind |-> "none", tree |-> [p \in Paths |-> NoEntry]]
       ELSE [status |-> "ok",
             kind |-> IF single /\ target = "absent" THEN "file" ELSE "dir",
             tree |-> [p \in Paths |->
                 IF p \in DOMAIN meta.files THEN FileEntry(written[p])
                 ELSE IF p \in meta.directories THEN DirEntry
                 ELSE NoEntry]]

\* ------------------------------------------------- do_restore on a target

\* What local_path is: nothing ("absent"), a directory with the entries of
\* tree, a regular file or a block device holding data, or something else
\* (a FIFO, a socket).
Target(kind, t, data) == [kind |-> kind, tree |-> t, data |-> data]

NoTree == [p \in Paths |-> NoEntry]

Absent == Target("absent", NoTree, <<>>)

EmptyDir == Target("dir", NoTree, <<>>)

\* The bytes a file holds where do_restore restores a file: none, fewer than
\* the file of the backup, as many, or more.
ExistingContents == UNION {[1..n -> Byte] : n \in 0..(MaxSeqTreeBytes + 1)}

\* The targets a restore starts on: an existing regular file is longer than
\* every backed up file, a block device is at least as long.
InitTargets ==
    {Absent, EmptyDir,
     Target("file", NoTree, [i \in 1..(MaxSeqTreeBytes + 1) |-> 1]),
     Target("blockdev", NoTree, [i \in 1..BlockDevSize |-> 1]),
     Target("other", NoTree, <<>>)}

\* A do_restore that restores every path inside local_path.
RestoresOntoPath_Never(single, tgt) == FALSE

\* do_restore's choice of get_restore_path: TRUE when every relative path is
\* restored to local_path itself.
RestoresOntoPath(single, tgt) == single /\ tgt.kind # "dir"

\* do_restore raises 'Please provide ...' for the target.
TargetRejected(single, tgt) ==
    IF single THEN tgt.kind \notin {"dir", "file", "blockdev", "absent"}
    ELSE tgt.kind \notin {"dir", "absent"}

\* The target once the mode is chosen: tree mode makes the directory.
TargetEntered(single, tgt) ==
    IF ~single /\ tgt.kind = "absent" THEN EmptyDir ELSE tgt

\* get_restore_path(p) is a file (or block device) that can be opened.
HasFile(tgt, onto, p) ==
    IF onto THEN tgt.kind \in {"file", "blockdev"}
    ELSE tgt.kind = "dir" /\ tgt.tree[p].kind = "file"

\* get_restore_path(p).exists()
PathExists(tgt, onto, p) ==
    IF onto THEN tgt.kind # "absent"
    ELSE tgt.kind = "dir" /\ tgt.tree[p].kind # "none"

FileBytes(tgt, onto, p) == IF onto THEN tgt.data ELSE tgt.tree[p].data

\* The bytes of get_restore_path(p) become data; the parent directory of the
\* path is made when it is missing.
PutFile(tgt, onto, p, data) ==
    IF onto
    THEN Target(IF tgt.kind = "absent" THEN "file" ELSE tgt.kind, tgt.tree, data)
    ELSE Target("dir",
                [q \in Paths |->
                    IF q = p THEN FileEntry(data)
                    ELSE IF p = "d/b" /\ q = "d" THEN DirEntry
                    ELSE tgt.tree[q]],
                tgt.data)

\* A scan that takes any bytes at the block's range for the block.
already_restored_AnyBytes(tgt, onto, p, b) ==
    /\ HasFile(tgt, onto, p)
    /\ Slice(FileBytes(tgt, onto, p), b.offset, b.offset + b.size) # <<>>

\* A scan that finds no block restored.
already_restored_Never(tgt, onto, p, b) == FALSE

\* The scan of restore_from_data_file: the block's range of the restore path
\* holds bytes with the block's sha3.
already_restored(tgt, onto, p, b) ==
    /\ HasFile(tgt, onto, p)
    /\ LET file_data == Slice(FileBytes(tgt, onto, p), b.offset, b.offset + b.size)
       IN /\ file_data # <<>>
          /\ sha3_512(file_data) = b.sha3

\* A write_restore_block that does not compare the sha3 of the block.
write_restore_block_Unchecked(tgt, onto, p, b) ==
    IF b.store_file \notin DOMAIN remote_data THEN tgt
    ELSE PutFile(tgt, onto, p,
             WriteAt(IF HasFile(tgt, onto, p) THEN FileBytes(tgt, onto, p) ELSE <<>>,
                     b.offset, BlockData(b)))

\* write_restore_block on the range fetched for the block: the bytes are
\* decrypted and decompressed and, when they have the block's sha3, written
\* at the block's offset; else it raises and writes nothing.
write_restore_block(tgt, onto, p, b) ==
    IF ~BlockFetchable(b) THEN tgt
    ELSE PutFile(tgt, onto, p,
             WriteAt(IF HasFile(tgt, onto, p) THEN FileBytes(tgt, onto, p) ELSE <<>>,
                     b.offset, BlockData(b)))

\* The write_restore_block tasks W, each a <<path, block number>>, have run.
RECURSIVE WriteBlocks(_, _, _, _)
WriteBlocks(tgt, onto, meta, W) ==
    IF W = {} THEN tgt
    ELSE LET x == CHOOSE x \in W : TRUE
         IN WriteBlocks(
                write_restore_block(tgt, onto, x[1], meta.files[x[1]].blocks[x[2]]),
                onto, meta, W \ {x})

\* do_restore's loop over meta.files from the i-th path on: an empty file
\* that is missing is created, a block device has its first original_size
\* bytes compared with the sha1, a regular file is truncated to original_size
\* and its size and sha1 are compared.
RECURSIVE CheckFiles(_, _, _, _)
CheckFiles(tgt, onto, meta, i) ==
    IF i > Len(PathOrder) THEN [status |-> "ok", target |-> tgt]
    ELSE
    LET p == PathOrder[i]
    IN IF p \notin DOMAIN meta.files THEN CheckFiles(tgt, onto, meta, i + 1)
       ELSE
       LET fm == meta.files[p]
           t1 == IF fm.original_size = 0 /\ ~PathExists(tgt, onto, p)
                 THEN PutFile(tgt, onto, p, <<>>) ELSE tgt
           t2 == IF HasFile(t1, onto, p) /\ t1.kind # "blockdev"
                    /\ Len(FileBytes(t1, onto, p)) > fm.original_size
                 THEN PutFile(t1, onto, p,
                              Slice(FileBytes(t1, onto, p), 0, fm.original_size))
                 ELSE t1
       IN IF onto /\ t1.kind = "blockdev"
          THEN IF sha1(Slice(t1.data, 0, fm.original_size)) = fm.original_sha1
               THEN CheckFiles(t1, onto, meta, i + 1)
               ELSE [status |-> "raised", target |-> t1]
          ELSE IF /\ HasFile(t2, onto, p)
                  /\ Len(FileBytes(t2, onto, p)) = fm.original_size
                  /\ sha1(FileBytes(t2, onto, p)) = fm.original_sha1
               THEN CheckFiles(t2, onto, meta, i + 1)
               ELSE [status |-> "raised", target |-> t2]

\* The directories of the manifest are made (mkdir(exist_ok=True)).
MakeDirectories(tgt, onto, meta) ==
    IF onto THEN tgt
    ELSE Target("dir",
                [q \in Paths |-> IF q \in meta.directories /\ tgt.tree[q].kind = "none"
                                 THEN DirEntry ELSE tgt.tree[q]],
                tgt.data)

\* The <<path, block number>> of every block of the manifest.
BlocksOf(meta) ==
    UNION {{<<p, k>> : k \in DOMAIN meta.files[p].blocks} : p \in DOMAIN meta.files}

\* do_restore of the manifest records on tgt with the reader impl.  ran is
\* the write_restore_block tasks that get to run when the restore does not
\* get through: a task of the pools raises, or the process is killed.
\* The result has the outcome, the target, the mode, the blocks fetched and
\* those of them whose bytes do not have the block's sha3.
do_restore(records, tgt, impl, ran, killed) ==
    LET meta == BackupMetaReader(records, impl)
        single == meta.contains_only_single_file
        onto == RestoresOntoPath(single, tgt)
        t0 == TargetEntered(single, tgt)
        block == [x \in BlocksOf(meta) |-> meta.files[x[1]].blocks[x[2]]]
        fetch == {x \in BlocksOf(meta) : ~already_restored(t0, onto, x[1], block[x])}
        bad == {x \in fetch : ~BlockFetchable(block[x])}
        none == [status |-> IF killed THEN "interrupted" ELSE "raised",
                 target |-> tgt, mode |-> "none", fetched |-> {}, bad |-> {}]
    IN IF meta.raised \/ ~meta.has_contains_only_single_file THEN none
       ELSE IF TargetRejected(single, tgt)
       THEN [none EXCEPT !.mode = IF single THEN "single" ELSE "tree"]
       ELSE IF killed \/ bad # {}
       THEN [status |-> IF killed THEN "interrupted" ELSE "raised",
             target |-> WriteBlocks(t0, onto, meta, fetch \cap ran),
             mode |-> IF single THEN "single" ELSE "tree",
             fetched |-> fetch \cap ran, bad |-> bad \cap ran]
       ELSE LET done == CheckFiles(
                    MakeDirectories(WriteBlocks(t0, onto, meta, fetch), onto, meta),
                    onto, meta, 1)
            IN [status |-> done.status, target |-> done.target,
                mode |-> IF single THEN "single" ELSE "tree",
                fetched |-> fetch, bad |-> {}]

\* ------------------------------------------------------ runs in sequence

CacheTrees ==
    {t \in Trees : Len(t["a"].data) + Len(t["d/b"].data) <= MaxCacheTreeBytes}

SeqTrees ==
    {t \in Trees : Len(t["a"].data) + Len(t["d/b"].data) <= MaxSeqTreeBytes}

\* The destination of the runs.
backup_url == "s3://bucket/backups"

\* cache_name of do_backup: the SHA-1 of the resolved local path, a space
\* and the backup URL.
cache_name(path, url) == sha1(<<path, " ", url>>)

CacheNames == {cache_name(p, backup_url) : p \in SourcePaths}

\* No file at a cache path, and a last-meta file holding records; whole is
\* FALSE while the file is a copy in progress.
NoCacheFile == [present |-> FALSE, records |-> <<>>, whole |-> TRUE]

CacheFile(records) == [present |-> TRUE, records |-> records, whole |-> TRUE]

\* The latest run is not in progress.
NoRunInProgress ==
    runs # <<>> => runs[Len(runs)].status \in {"ok", "raised", "interrupted"}

\* A second of the clock passes.
Tick ==
    /\ clock < MaxClock
    /\ NoRunInProgress
    /\ clock' = clock + 1
    /\ UNCHANGED <<remote_data, remote_meta, last_meta, uploads, runs, fresh_key,
                   meta_reader, restored, local_path, restore_log>>

\* do_backup of a source tree: the cached manifest of the cache name is read,
\* backup_id is the second of the clock, every data file of the run is a
\* multipart upload that is completed, and the manifest is uploaded.  With
\* whole the run is taken to its end in this step, the cached manifest
\* replaced, and else up to remote.upload_file.  A last-meta file that is not
\* whole does not read.
Backup(T, S, C, whole) ==
    /\ Len(runs) < MaxBackups
    /\ NoRunInProgress
    /\ restored.status = "none"
    /\ \E t \in T, src \in S, configured \in C :
       LET name == cache_name(src, backup_url)
           file == last_meta[name]
           cached == IF file.present /\ file.whole
                     THEN BackupMetaReader(file.records, "backup")
                     ELSE BackupMetaReader(<<HeaderRecord(configured)>>, "backup")
           prev == [present |-> file.present, blocks |-> cached.blocks,
                    block_size |-> cached.block_size]
           run == BackupRun(t, prev, clock, fresh_key, configured)
           this == [id |-> clock, tree |-> t, local_path |-> src,
                    configured |-> configured, cached |-> file,
                    records |-> run.records,
                    status |-> IF whole THEN "ok" ELSE "uploaded"]
       IN IF cached.raised \/ (file.present /\ ~file.whole)
          THEN /\ runs' = Append(runs, [this EXCEPT !.records = <<>>,
                                                    !.status = "raised"])
               /\ UNCHANGED <<remote_data, remote_meta, last_meta, uploads, fresh_key>>
          ELSE /\ runs' = Append(runs, this)
               /\ last_meta' = IF whole
                               THEN [last_meta EXCEPT ![name] = CacheFile(run.records)]
                               ELSE last_meta
               /\ remote_data' = [n \in DOMAIN remote_data \cup DOMAIN run.objects |->
                                     IF n \in DOMAIN run.objects THEN run.objects[n]
                                     ELSE remote_data[n]]
               /\ remote_meta' = [i \in DOMAIN remote_meta \cup {clock} |->
                                     IF i = clock THEN run.records ELSE remote_meta[i]]
               /\ uploads' = uploads \o
                      [k \in 1..run.collector.file_number |-> DataFileName(clock, k - 1)]
               /\ fresh_key' = run.next_key
    /\ UNCHANGED <<clock, meta_reader, restored, local_path, restore_log>>

\* Runs of one local path in processes with the default block size.
DoBackup == Backup(SeqTrees, {"/src1"}, {default_block_size}, TRUE)

\* Runs of the local paths in processes with any of the block sizes.
DoBackupFrom == Backup(CacheTrees, SourcePaths, ConfiguredBlockSizes, FALSE)

\* The run in progress and the cache path it replaces.
CurrentRun == runs[Len(runs)]

CurrentCache == cache_name(CurrentRun.local_path, backup_url)

\* do_backup: if cache_meta_path.exists(): cache_meta_path.unlink()
CacheUnlink ==
    /\ runs # <<>>
    /\ CurrentRun.status = "uploaded"
    /\ runs' = [runs EXCEPT ![Len(runs)].status = "unlinked"]
    /\ last_meta' = [last_meta EXCEPT ![CurrentCache] = NoCacheFile]
    /\ UNCHANGED <<clock, remote_data, remote_meta, uploads, fresh_key,
                   meta_reader, restored, local_path, restore_log>>

\* do_backup: shutil.move(temp_meta_path, cache_meta_path).  It is a rename
\* when the temporary directory and the cache are on one filesystem, and
\* else a copy, which has written the first records of the file while it runs.
CacheMove ==
    /\ runs # <<>>
    /\ \/ /\ CurrentRun.status \in {"unlinked", "copying"}
          /\ runs' = [runs EXCEPT ![Len(runs)].status = "ok"]
          /\ last_meta' = [last_meta EXCEPT ![CurrentCache] = CacheFile(CurrentRun.records)]
       \/ /\ CurrentRun.status = "unlinked"
          /\ runs' = [runs EXCEPT ![Len(runs)].status = "copying"]
          /\ last_meta' = [last_meta EXCEPT ![CurrentCache] =
                              [present |-> TRUE, whole |-> FALSE,
                               records |-> SubSeq(CurrentRun.records, 1, 1)]]
    /\ UNCHANGED <<clock, remote_data, remote_meta, uploads, fresh_key,
                   meta_reader, restored, local_path, restore_log>>

\* The process of do_backup is killed after the upload of the manifest.
InterruptBackup ==
    /\ runs # <<>>
    /\ CurrentRun.status \in {"uploaded", "unlinked", "copying"}
    /\ runs' = [runs EXCEPT ![Len(runs)].status = "interrupted"]
    /\ UNCHANGED <<clock, remote_data, remote_meta, last_meta, uploads, fresh_key,
                   meta_reader, restored, local_path, restore_log>>

\* do_restore of the manifest of the latest run
DoRestore ==
    /\ runs # <<>>
    /\ runs[Len(runs)].status = "ok"
    /\ restored.status = "none"
    /\ \E target \in {"absent", "empty_dir"} :
          restored' = [RestoreResult(remote_meta[runs[Len(runs)].id], target, meta_reader)
                       EXCEPT !.status = IF @ = "ok" THEN "ok" ELSE "raised"]
    /\ UNCHANGED <<clock, remote_data, remote_meta, last_meta, uploads, runs,
                   fresh_key, meta_reader, local_path, restore_log>>

\* No function is called on its own.
Idle == [op |-> "idle"]

CallIdle ==
    /\ fn_call = Idle
    /\ fn_result = Idle

\* No do_restore has submitted a task.
WriteIdle ==
    /\ disk = [dirs |-> {}, files |-> <<>>, mkdirs |-> 0, creates |-> <<>>]
    /\ mutex = 0
    /\ writers = <<>>
    /\ rtasks = <<>>
    /\ main = [pc |-> "idle", i |-> 0]

SeqIdle ==
    /\ clock = 1
    /\ remote_data = [n \in {} |-> <<>>]
    /\ remote_meta = [i \in {} |-> <<>>]
    /\ last_meta = [n \in CacheNames |-> NoCacheFile]
    /\ uploads = <<>>
    /\ runs = <<>>
    /\ fresh_key = 2
    /\ meta_reader = "backup"
    /\ restored = [status |-> "none", kind |-> "none", tree |-> [p \in Paths |-> NoEntry]]
    /\ local_path = Absent
    /\ restore_log = <<>>

\* ------------------------------------------- restores of one backup's manifest

\* The first do_backup to a destination, of the source tree.
InitRun ==
    BackupRun(tree, [present |-> FALSE, blocks |-> PrevIndex({})], 1, 2,
              default_block_size)

\* The manifest do_restore is given: that of the latest run.
RestoreRecords == remote_meta[runs[Len(runs)].id]

\* A run of do_restore has left r.
RestoreRun(r) ==
    /\ local_path' = r.target
    /\ restore_log' = Append(restore_log,
           [status |-> r.status, before |-> local_path, target |-> r.target,
            mode |-> r.mode, fetched |-> r.fetched, bad |-> r.bad])

\* do_restore runs until it returns or raises; it raises when one of the
\* write tasks that ran has raised.
Restore ==
    /\ Len(restore_log) < MaxRestores
    /\ LET all == BlocksOf(BackupMetaReader(RestoreRecords, meta_reader))
           r == do_restore(RestoreRecords, local_path, meta_reader, all, FALSE)
       IN IF r.bad = {} THEN RestoreRun(r)
          ELSE \E ran \in SUBSET all :
                  /\ ran \cap r.bad # {}
                  /\ RestoreRun(do_restore(RestoreRecords, local_path, meta_reader,
                                           ran, FALSE))
    /\ UNCHANGED <<clock, remote_data, remote_meta, last_meta, uploads, runs,
                   fresh_key, meta_reader, restored>>

\* do_restore is interrupted: the process ends when some of the block writes
\* have been performed.
InterruptedRestore ==
    /\ Len(restore_log) < MaxRestores
    /\ \E ran \in SUBSET BlocksOf(BackupMetaReader(RestoreRecords, meta_reader)) :
          RestoreRun(do_restore(RestoreRecords, local_path, meta_reader, ran, TRUE))
    /\ UNCHANGED <<clock, remote_data, remote_meta, last_meta, uploads, runs,
                   fresh_key, meta_reader, restored>>

\* The store has what the backup put there.
Undamaged ==
    /\ remote_data = InitRun.objects
    /\ RestoreRecords = InitRun.records

\* A byte of a data object of the store changes.
DamageData ==
    /\ restore_log = <<>>
    /\ Undamaged
    /\ \E n \in DOMAIN remote_data : \E i \in DOMAIN remote_data[n] :
          remote_data' = [remote_data EXCEPT ![n][i] = (@ + 1) % 256]
    /\ UNCHANGED <<clock, remote_meta, last_meta, uploads, runs, fresh_key,
                   meta_reader, restored, local_path, restore_log>>

\* The manifest of the store names, for a file, a sha1 its blocks do not have.
DamageManifest ==
    /\ restore_log = <<>>
    /\ Undamaged
    /\ \E i \in DOMAIN RestoreRecords :
          /\ RestoreRecords[i].kind = "file_summary"
          /\ remote_meta' = [remote_meta EXCEPT
                 ![runs[Len(runs)].id][i].sha1 = sha1(<<1>> \o @.of)]
    /\ UNCHANGED <<clock, remote_data, last_meta, uploads, runs, fresh_key,
                   meta_reader, restored, local_path, restore_log>>

\* ------------------------------------- S3Backend.retrieve_file_ranges
\* An object of the bucket, and the (offset, size) lists a caller may pass.
S3Objects == {<<10, 11, 12, 13>>, <<7, 7, 7>>}

OffsetSizes == (0..MaxRangeOffset) \X (0..MaxRangeSize)

RECURSIVE SeqsUpTo(_, _)
SeqsUpTo(S, n) ==
    IF n = 0 THEN {<<>>}
    ELSE LET shorter == SeqsUpTo(S, n - 1)
         IN  shorter \cup {Append(q, x) : q \in shorter, x \in S}

OffsetSizeLists == SeqsUpTo(OffsetSizes, MaxRanges) \ {<<>>}

\* The body of get_object(Range='bytes=first-last'): the bytes the object has
\* from first to last.
get_object(object, first, last) ==
    SubSeq(object, first + 1, Min(last + 1, Len(object)))

\* Body.read(size): at most size bytes of what is left of the body.
Body_read(body, size) == SubSeq(body, 1, Min(size, Len(body)))

\* The end of the run of consecutive ranges the list starts with: the scan of
\* the items from the second on.
RECURSIVE consecutive_range_end(_, _, _)
consecutive_range_end(list, i, end) ==
    IF i > Len(list) \/ end # list[i][1] THEN end
    ELSE consecutive_range_end(list, i + 1, end + list[i][2])

\* The loop that reads the items of one run from the body of one response.
RECURSIVE ReadRun(_, _, _, _)
ReadRun(list, body, end, yielded) ==
    IF list = <<>> THEN [list |-> list, yielded |-> yielded, raised |-> TRUE]
    ELSE LET offset == list[1][1]
             size == list[1][2]
             data == Body_read(body, size)
         IN  IF offset + size > end \/ Len(data) # size
             THEN [list |-> Tail(list), yielded |-> yielded, raised |-> TRUE]
             ELSE IF offset + size = end
             THEN [list |-> Tail(list), yielded |-> Append(yielded, data),
                   raised |-> FALSE]
             ELSE ReadRun(Tail(list), SubSeq(body, size + 1, Len(body)), end,
                          Append(yielded, data))

\* One request for every item: the run a request serves is its first item.
RECURSIVE RetrieveRuns_OnePerItem(_, _)
RetrieveRuns_OnePerItem(object, st) ==
    IF st.list = <<>> \/ st.raised THEN st
    ELSE LET first == st.list[1][1]
             end == first + st.list[1][2]
             run == ReadRun(st.list, get_object(object, first, end - 1), end,
                            st.yielded)
         IN  RetrieveRuns_OnePerItem(object,
                 [list |-> run.list, yielded |-> run.yielded,
                  raised |-> run.raised,
                  requests |-> Append(st.requests,
                                      [first |-> first, last |-> end - 1])])

\* The loop over the runs: one get_object for each.
RECURSIVE RetrieveRuns(_, _)
RetrieveRuns(object, st) ==
    IF st.list = <<>> \/ st.raised THEN st
    ELSE LET first == st.list[1][1]
             end == consecutive_range_end(st.list, 2, first + st.list[1][2])
             run == ReadRun(st.list, get_object(object, first, end - 1), end,
                            st.yielded)
         IN  RetrieveRuns(object,
                 [list |-> run.list, yielded |-> run.yielded,
                  raised |-> run.raised,
                  requests |-> Append(st.requests,
                                      [first |-> first, last |-> end - 1])])

\* What a caller that exhausts the generator gets: the byte strings yielded,
\* the requests made and whether the generator raised.
retrieve_file_ranges(object, offset_size_list) ==
    LET st == RetrieveRuns(object, [list |-> offset_size_list, yielded |-> <<>>,
                                    raised |-> FALSE, requests |-> <<>>])
    IN  [op |-> "returned", yielded |-> st.yielded, requests |-> st.requests,
         raised |-> st.raised]

RetrieveFileRanges ==
    /\ fn_call.op = "retrieve_file_ranges"
    /\ fn_result = Idle
    /\ fn_result' = retrieve_file_ranges(fn_call.object, fn_call.offset_size_list)
    /\ UNCHANGED fn_call

\* ------------------------------------------------ BackupMetaReader calls
\* The kinds of record a line of a manifest may hold; "other" is a record
\* with none of the keys the reader knows.
RecordKinds ==
    {"baq_backup", "directory", "file", "file_data", "file_summary", "other"}

\* A manifest do_backup writes, to take one record of each kind from.
SampleManifest ==
    BackupRun([p \in Paths |-> IF p = "a" THEN FileEntry(<<1>>)
                               ELSE IF p = "d" THEN DirEntry ELSE NoEntry],
              [present |-> FALSE, blocks |-> PrevIndex({})], 1, 2,
              default_block_size).records

RecordOfKind(k) ==
    IF k = "other" THEN [kind |-> "other"]
    ELSE SampleManifest[CHOOSE i \in DOMAIN SampleManifest :
                            SampleManifest[i].kind = k]

RecordSeqs ==
    {[i \in DOMAIN ks |-> RecordOfKind(ks[i])] : ks \in SeqsUpTo(RecordKinds, MaxRecords)}

\* The records do_backup writes for a tree whose entries have these owner
\* and group names, or none.
WithOwners(records, owner, group) ==
    [i \in DOMAIN records |->
        IF records[i].kind \in {"directory", "file"}
        THEN [records[i] EXCEPT !.owner = owner[records[i].path],
                                !.group = group[records[i].path]]
        ELSE records[i]]

WrittenManifests ==
    {WithOwners(BackupRun(t, [present |-> FALSE, blocks |-> PrevIndex({})],
                          1, 2, default_block_size).records, owner, group) :
        t \in CacheTrees,
        owner \in [Paths -> {None, "root"}],
        group \in [Paths -> {None, "staff"}]}

ReadMeta ==
    /\ fn_call.op = "BackupMetaReader"
    /\ fn_result = Idle
    /\ fn_result' = BackupMetaReader_init(fn_call.records, fn_call.impl)
    /\ UNCHANGED fn_call

\* --------------------------------------- operations.backup and restore
\* The characters of the names of the destination, by their code points, as
\* the comparison of strings takes them.
ord ==
    [c \in {".", "T", "Z", "a", "b", "d", "e", "m", "q", "t"} |->
        CASE c = "." -> 46 [] c = "T" -> 84 [] c = "Z" -> 90 [] c = "a" -> 97
          [] c = "b" -> 98 [] c = "d" -> 100 [] c = "e" -> 101
          [] c = "m" -> 109 [] c = "q" -> 113 [] c = "t" -> 116]

Codes(chars) == [i \in DOMAIN chars |-> ord[chars[i]]]

DigitCodes == 48..57

\* A number in two digits, as %d, %H, %M and %S give it.
TwoDigits(n) == <<48 + ((n \div 10) % 10), 48 + (n % 10)>>

\* A number in the digits it has.
Digits(n) == IF n < 10 THEN <<48 + n>> ELSE TwoDigits(n)

\* The backup id with each number in the digits it has.
strftime_Unpadded(c) ==
    Digits(c \div SecondsPerDay) \o <<ord["T"]>> \o Digits(c % SecondsPerDay)
        \o <<ord["Z"]>>

\* datetime.utcnow().strftime('%Y%m%dT%H%M%SZ') in second c: the date, T, the
\* time of the day, Z, each in its fixed number of digits.
strftime(c) ==
    TwoDigits(c \div SecondsPerDay) \o <<ord["T"]>> \o TwoDigits(c % SecondsPerDay)
        \o <<ord["Z"]>>

MetaFileName(id) == Codes(<<"b", "a", "q", ".">>) \o id \o Codes(<<".", "m", "e", "t", "a">>)

DataFileNameOf(id) ==
    Codes(<<"b", "a", "q", ".">>) \o id \o Codes(<<".", "d", "a", "t", "a", ".">>)
        \o <<48, 48, 48, 48, 48>>

\* a < b of two strings.
LexLess(a, b) ==
    \/ Len(a) < Len(b) /\ SubSeq(b, 1, Len(a)) = a
    \/ \E i \in 1..Min(Len(a), Len(b)) :
          /\ SubSeq(a, 1, i - 1) = SubSeq(b, 1, i - 1)
          /\ a[i] < b[i]

\* max() of a set of strings that is not empty.
py_max(names) == CHOOSE x \in names : \A y \in names : y = x \/ LexLess(y, x)

\* The group of ^baq\.([0-9TZ]+)\.meta$ in a name.
MetaIdOf(name) == SubSeq(name, 5, Len(name) - 5)

meta_filename_regex_match(name) ==
    /\ Len(name) >= 10
    /\ SubSeq(name, 1, 4) = Codes(<<"b", "a", "q", ".">>)
    /\ SubSeq(name, Len(name) - 4, Len(name)) = Codes(<<".", "m", "e", "t", "a">>)
    /\ \A i \in DOMAIN MetaIdOf(name) :
          MetaIdOf(name)[i] \in DigitCodes \cup {ord["T"], ord["Z"]}

\* backend.list_files(): the names of the directory that start with baq.
list_files(dir) ==
    {n \in DOMAIN dir : Len(n) >= 4 /\ SubSeq(n, 1, 4) = Codes(<<"b", "a", "q", ".">>)}

MetaFileNames(dir) == {n \in list_files(dir) : meta_filename_regex_match(n)}

\* The manifest load_previous_backup_for_reuse loads, or None.
reuse_meta_filename(dir) ==
    IF MetaFileNames(dir) = {} THEN None ELSE py_max(MetaFileNames(dir))

\* What src_path holds when a backup is made of it.
OpsSources == {"monday", "tuesday"}

OpsTick ==
    /\ clock < MaxOpsClock
    /\ clock' = clock + 1
    /\ UNCHANGED <<fb_dir, runs, restored>>

\* operations.backup of src_path: the id of the second, the manifest of the
\* latest backup loaded for reuse, the data written, and the manifest stored
\* unless one of its name is there; finished is false of a run that dies
\* after its data is written.
OpsBackup ==
    /\ Len(runs) < MaxOpsBackups
    /\ \E source \in OpsSources, finished \in BOOLEAN :
          LET id == strftime(clock)
              stored == finished /\ MetaFileName(id) \notin DOMAIN fb_dir
              this == [id |-> id, source |-> source,
                       reused |-> reuse_meta_filename(fb_dir),
                       status |-> IF stored THEN "ok"
                                  ELSE IF finished THEN "raised"
                                  ELSE "interrupted"]
              names == {DataFileNameOf(id)}
                           \cup (IF stored THEN {MetaFileName(id)} ELSE {})
          IN  /\ runs' = Append(runs, this)
              /\ fb_dir' = [n \in DOMAIN fb_dir \cup names |->
                               IF n \in names
                               THEN [backup_id |-> id, source |-> source]
                               ELSE fb_dir[n]]
    /\ UNCHANGED <<clock, restored>>

\* operations.restore: the manifest with the greatest name is restored.
OpsRestore ==
    /\ restored' =
          IF MetaFileNames(fb_dir) = {}
          THEN [status |-> "raised", after |-> Len(runs)]
          ELSE LET meta_filename == py_max(MetaFileNames(fb_dir))
                   header == fb_dir[meta_filename]
               IN  IF MetaIdOf(meta_filename) # header.backup_id
                   THEN [status |-> "raised", after |-> Len(runs)]
                   ELSE [status |-> "ok", after |-> Len(runs),
                         backup_id |-> header.backup_id,
                         source |-> header.source]
    /\ restored' # restored
    /\ UNCHANGED <<clock, fb_dir, runs>>

\* ------------------------------------- the encryption keys of operations.py
\* The chunks of the one file of src_path when a backup is made of it.
KeySources == {<<"x">>, <<"y">>, <<"x", "y">>, <<"y", "y">>}

\* A slice seq[:n] of Python, for n >= 0.
FirstN(seq, n) == SubSeq(seq, 1, Min(n, Len(seq)))

\* reuse_blocks with the content records of every key.
reuse_blocks_of_AnyKey(contents, reuse_encryption_keys) ==
    LET last(h) == CHOOSE i \in DOMAIN contents :
                      /\ contents[i].sha3_512 = h
                      /\ \A j \in DOMAIN contents :
                            contents[j].sha3_512 = h => j <= i
    IN  [h \in {contents[i].sha3_512 : i \in DOMAIN contents} |->
            [df_name |-> contents[last(h)].df_name,
             df_offset |-> contents[last(h)].df_offset,
             encryption_key_sha1 |-> contents[last(h)].encryption_key_sha1]]

\* reuse_blocks of load_previous_backup_for_reuse: of the content records
\* whose encryption_key_sha1 is that of a key of reuse_encryption_keys, the
\* last of each sha3_512.
reuse_blocks_of(contents, reuse_encryption_keys) ==
    LET reuse_encryption_keys_sha1 ==
            {reuse_encryption_keys[k].sha1 : k \in DOMAIN reuse_encryption_keys}
        kept == {i \in DOMAIN contents :
                    contents[i].encryption_key_sha1 \in reuse_encryption_keys_sha1}
        last(h) == CHOOSE i \in kept :
                      /\ contents[i].sha3_512 = h
                      /\ \A j \in kept : contents[j].sha3_512 = h => j <= i
    IN  [h \in {contents[i].sha3_512 : i \in kept} |->
            [df_name |-> contents[last(h)].df_name,
             df_offset |-> contents[last(h)].df_offset,
             encryption_key_sha1 |-> contents[last(h)].encryption_key_sha1]]

\* load_previous_backup_for_reuse on the manifests stored: nothing to reuse
\* when there is none, else the first reuse_backup_count keys of the header of
\* the latest and the blocks stored under them.
load_previous_backup_for_reuse(manifests, reuse_backup_count) ==
    IF manifests = <<>>
    THEN [reuse_encryption_keys |-> <<>>, reuse_blocks |-> <<>>]
    ELSE LET reuse == manifests[Len(manifests)]
             reuse_encryption_keys ==
                 FirstN(reuse.encryption_keys, reuse_backup_count)
         IN  [reuse_encryption_keys |-> reuse_encryption_keys,
              reuse_blocks |-> reuse_blocks_of(reuse.contents, reuse_encryption_keys)]

\* generate_header with no recipients: the key of this backup, in hex, and
\* after it the keys reused.
generate_header(id, encryption_key, reuse_encryption_keys) ==
    <<[backup_id |-> id, sha1 |-> sha1(encryption_key), hex |-> encryption_key]>>
        \o reuse_encryption_keys

\* The loop of backup over the chunks of a file from the n-th on: a chunk of
\* reuse_blocks gets a content record of the block stored, any other chunk is
\* written under the key of this backup and added to reuse_blocks.
RECURSIVE BackupChunks(_, _, _, _, _)
BackupChunks(chunks, n, id, encryption_key, st) ==
    IF n > Len(chunks) THEN st
    ELSE LET chunk_hash == sha3_512(chunks[n])
             chunk_df == [df_name |-> id, df_offset |-> Len(st.written),
                          encryption_key_sha1 |-> sha1(encryption_key)]
             block == IF chunk_hash \in DOMAIN st.reuse_blocks
                      THEN st.reuse_blocks[chunk_hash] ELSE chunk_df
             content == [offset |-> n - 1, sha3_512 |-> chunk_hash,
                         df_name |-> block.df_name, df_offset |-> block.df_offset,
                         encryption_key_sha1 |-> block.encryption_key_sha1]
         IN  BackupChunks(chunks, n + 1, id, encryption_key,
                 IF chunk_hash \in DOMAIN st.reuse_blocks
                 THEN [st EXCEPT !.contents = Append(st.contents, content)]
                 ELSE [contents |-> Append(st.contents, content),
                       written |-> Append(st.written,
                                       [data |-> chunks[n], key |-> encryption_key]),
                       reuse_blocks |-> Put(st.reuse_blocks, chunk_hash, chunk_df)])

\* operations.backup of src_path with reuse_backup_count: the manifest it
\* stores and the chunks it writes to its data file.
backup(manifests, chunks, id, encryption_key, reuse_backup_count) ==
    LET reuse == load_previous_backup_for_reuse(manifests, reuse_backup_count)
        st == BackupChunks(chunks, 1, id, encryption_key,
                  [contents |-> <<>>, written |-> <<>>,
                   reuse_blocks |-> reuse.reuse_blocks])
    IN  [backup_id |-> id,
         encryption_keys |->
             generate_header(id, encryption_key, reuse.reuse_encryption_keys),
         contents |-> st.contents,
         written |-> st.written,
         chunks |-> chunks,
         reuse_backup_count |-> reuse_backup_count]

\* DecryptKeyManager.get_key: the key of the first entry with the sha1;
\* 'Could not open key' is raised when there is none.
get_key(encryption_keys, key_hash) ==
    IF \E k \in DOMAIN encryption_keys : encryption_keys[k].sha1 = key_hash
    THEN [open_key |-> encryption_keys[CHOOSE k \in DOMAIN encryption_keys :
             /\ encryption_keys[k].sha1 = key_hash
             /\ \A j \in 1..(k - 1) : encryption_keys[j].sha1 # key_hash].hex]
    ELSE Raised

\* operations.backup, the n-th to the backend: its id is later than those
\* before it and its key is one os.urandom has not returned.
KeysBackup ==
    /\ Len(runs) < MaxKeyBackups
    /\ \E chunks \in KeySources, reuse_backup_count \in 0..MaxReuseCount :
          runs' = Append(runs, backup(runs, chunks, Len(runs) + 1, fresh_key,
                                      reuse_backup_count))
    /\ fresh_key' = fresh_key + 1
    /\ UNCHANGED restored

\* operations.restore of the latest manifest: each content record's key is
\* asked of the DecryptKeyManager of the header and its chunk decrypted.
KeysRestore ==
    /\ runs # <<>>
    /\ LET meta == runs[Len(runs)]
           key(i) == get_key(meta.encryption_keys, meta.contents[i].encryption_key_sha1)
           chunk(i) == runs[meta.contents[i].df_name].written[meta.contents[i].df_offset + 1]
           unknown == {i \in DOMAIN meta.contents : key(i) = Raised}
           wrong == {i \in DOMAIN meta.contents :
                        key(i) # [open_key |-> chunk(i).key]}
       IN  restored' =
              IF unknown # {} THEN [status |-> "Could not open key", of |-> Len(runs)]
              ELSE IF wrong # {} THEN [status |-> "raised", of |-> Len(runs)]
              ELSE [status |-> "ok", of |-> Len(runs),
                    data |-> [i \in DOMAIN meta.contents |-> chunk(i).data]]
    /\ restored' # restored
    /\ UNCHANGED <<runs, fresh_key>>

\* --------------------------------------------------------- specifications

\* ------------------------------------------------ the plan of do_restore
\* split(data_file_contents, 1000): the blocks of one restore task, scaled.
restore_task_blocks == 2

\* The (file_path, b) pairs of meta.files in the order do_restore meets them:
\* two blocks of "a", at offsets 0 and 2, then the blocks of "d/b"; b names
\* the data file and the offset it is stored at.  Two pairs may name one
\* stored block.
PlanPairs(n) ==
    {[i \in 1..n |-> <<IF i <= 2 THEN "a" ELSE "d/b",
                       [offset |-> default_block_size
                                       * (IF i <= 2 THEN i - 1 ELSE i - 3),
                        store_file |-> f[i], store_offset |-> o[i]]>>] :
        f \in [1..n -> 1..MaxPlanFiles], o \in [1..n -> 0..MaxPlanOffset]}

PlanInputs == UNION {PlanPairs(n) : n \in 1..MaxPlanBlocks}

\* sorted(items, key=key): ascending by key, items of one key in the order
\* they had.
sorted(items, key(_)) ==
    LET rank(i) == 1 + Cardinality({j \in DOMAIN items :
                       \/ key(items[j]) < key(items[i])
                       \/ key(items[j]) = key(items[i]) /\ j < i})
    IN  [k \in DOMAIN items |-> items[CHOOSE i \in DOMAIN items : rank(i) = k]]

\* A split that yields full chunks only.
split_FullChunksOnly(items, n) ==
    [c \in 1..(Len(items) \div n) |-> SubSeq(items, (c - 1) * n + 1, c * n)]

\* util.split: chunks of n items in order, and a last chunk of what is left.
split(items, n) ==
    [c \in 1..((Len(items) + n - 1) \div n) |->
        SubSeq(items, (c - 1) * n + 1, Min(c * n, Len(items)))]

\* data_file_map[store_file], in the order of the setdefault(...).append calls.
data_file_map(pairs, store_file) ==
    SelectSeq(pairs, LAMBDA x : x[2].store_file = store_file)

\* The restore tasks of the data files from the k-th name on, in sorted order
\* of name: each data file's pairs sorted by store_offset and split.
RECURSIVE TasksFrom(_, _)
TasksFrom(pairs, k) ==
    IF k > MaxPlanFiles THEN <<>>
    ELSE LET data_file_contents ==
                 sorted(data_file_map(pairs, k), LAMBDA x : x[2].store_offset)
             chunks == split(data_file_contents, restore_task_blocks)
         IN  [c \in DOMAIN chunks |->
                 [data_file_name |-> k, data_file_contents_chunk |-> chunks[c]]]
             \o TasksFrom(pairs, k + 1)

\* restore_tasks as do_restore submits them: sorted by the store_offset of
\* each task's first block.
restore_tasks(pairs) ==
    sorted(TasksFrom(pairs, 1),
           LAMBDA t : t.data_file_contents_chunk[1][2].store_offset)

\* do_restore plans the restore of a manifest.
PlanRestore ==
    /\ fn_call.op = "restore_tasks"
    /\ fn_result = Idle
    /\ fn_result' = [op |-> "returned", tasks |-> restore_tasks(fn_call.pairs)]
    /\ UNCHANGED fn_call

\* ---------------------------------------- the threads of do_restore
\* The files of the manifest restored by the threads: "a" of one block and
\* "d/b" of two, in the directory "d" that local_path does not hold yet.
WriteFiles == [p \in {"a", "d/b"} |-> IF p = "a" THEN <<0, 1>> ELSE <<1, 0, 1>>]

\* The (file_path, b) pairs of that manifest, stored in the data files f names.
WritePairs(f) ==
    << <<"a", [offset |-> 0, store_file |-> f[1], store_offset |-> 0]>>,
       <<"d/b", [offset |-> 0, store_file |-> f[2], store_offset |-> 1]>>,
       <<"d/b", [offset |-> default_block_size, store_file |-> f[3],
                 store_offset |-> 2]>> >>

\* The bytes of the block of a pair.
original_data(x) ==
    Slice(WriteFiles[x[1]], x[2].offset, x[2].offset + default_block_size)

\* The write_restore_block call of a pair: the calls are numbered as the pairs.
WriterOf(x) == CHOOSE w \in DOMAIN fn_call.pairs : fn_call.pairs[w] = x

\* restore_path.parent of a writer, "." being local_path itself.
parent(w) == IF fn_call.pairs[w][1] = "d/b" THEN "d" ELSE "."

parent_exists(w) == parent(w) = "." \/ parent(w) \in disk.dirs

restore_path(w) == fn_call.pairs[w][1]

\* A write_restore_block call that has returned or raised.
Settled(w) == writers[w].pc \in {"none", "done", "failed"}

\* The calls a thread of write_pool is running.
Running == {w \in DOMAIN writers : writers[w].pc \notin {"none", "queued", "done", "failed"}}

\* write_pool has been shut down: do_restore is leaving its with block.
write_pool_shutdown == main.pc \in {"exit", "unwind"}

Fail(w, error) == [writers EXCEPT ![w] = [pc |-> "failed", error |-> error]]

\* do_restore: the restore_tasks are submitted to restore_pool.
SubmitTasks ==
    /\ fn_call.op = "do_restore"
    /\ main.pc = "idle"
    /\ main' = [pc |-> "await", i |-> 1]
    /\ LET tasks == restore_tasks(fn_call.pairs)
       IN  rtasks' = [t \in DOMAIN tasks |->
                         [pc |-> "start",
                          restore_blocks |-> tasks[t].data_file_contents_chunk,
                          n |-> 0, write_futures |-> <<>>]]
    /\ writers' = [w \in DOMAIN fn_call.pairs |-> [pc |-> "none", error |-> ""]]
    /\ disk' = [dirs |-> {},
                files |-> [q \in DOMAIN WriteFiles |-> [exists |-> FALSE, data |-> <<>>]],
                mkdirs |-> 0,
                creates |-> [q \in DOMAIN WriteFiles |-> 0]]
    /\ UNCHANGED <<mutex, callVars>>

\* The scan of restore_from_data_file: a block whose bytes are on the disk
\* already is left out.
on_disk(x) ==
    /\ disk.files[x[1]].exists
    /\ Slice(disk.files[x[1]].data, x[2].offset,
             x[2].offset + Len(original_data(x))) = original_data(x)

\* restore_from_data_file up to the loop over the retrieved ranges: the scan,
\* and retrieve_file_ranges, which may raise.
TaskFetch(t) ==
    /\ t \in DOMAIN rtasks
    /\ rtasks[t].pc = "start"
    /\ LET filtered == SelectSeq(rtasks[t].restore_blocks, LAMBDA x : ~on_disk(x))
       IN  \/ rtasks' = [rtasks EXCEPT ![t].restore_blocks = filtered,
                                       ![t].n = 1,
                                       ![t].pc = IF filtered = <<>> THEN "done"
                                                 ELSE "submit"]
           \/ /\ filtered # <<>>
              /\ rtasks' = [rtasks EXCEPT ![t].pc = "failed"]
    /\ UNCHANGED <<disk, mutex, writers, main, callVars>>

\* write_futures.append(write_pool.submit(write_restore_block, ...)); submit
\* raises once the pool is shut down.
TaskSubmit(t) ==
    /\ t \in DOMAIN rtasks
    /\ rtasks[t].pc = "submit"
    /\ LET w == WriterOf(rtasks[t].restore_blocks[rtasks[t].n])
       IN  IF write_pool_shutdown
           THEN /\ rtasks' = [rtasks EXCEPT ![t].pc = "failed"]
                /\ UNCHANGED writers
           ELSE /\ writers' = [writers EXCEPT ![w].pc = "queued"]
                /\ rtasks' = [rtasks EXCEPT
                       ![t].write_futures = Append(rtasks[t].write_futures, w),
                       ![t].pc = "wait"]
    /\ UNCHANGED <<disk, mutex, main, callVars>>

\* while len(write_futures) > 100: write_futures.popleft().result(), the
\* result being awaited or raised; then the next turn of the for loop, or the
\* loop over what is left of write_futures.
TaskWait(t) ==
    /\ t \in DOMAIN rtasks
    /\ rtasks[t].pc = "wait"
    /\ LET task == rtasks[t]
       IN  IF Len(task.write_futures) > max_write_futures
           THEN /\ writers[Head(task.write_futures)].pc \in {"done", "failed"}
                /\ rtasks' = [rtasks EXCEPT ![t] =
                       IF writers[Head(task.write_futures)].pc = "done"
                       THEN [task EXCEPT !.write_futures = Tail(task.write_futures)]
                       ELSE [task EXCEPT !.pc = "failed"]]
           ELSE rtasks' = [rtasks EXCEPT ![t] =
                       IF task.n < Len(task.restore_blocks)
                       THEN [task EXCEPT !.n = task.n + 1, !.pc = "submit"]
                       ELSE [task EXCEPT !.pc = "join"]]
    /\ UNCHANGED <<disk, mutex, writers, main, callVars>>

\* A loop that forgets the futures it has not awaited.
TaskJoin_ForgetsFutures(t) ==
    /\ t \in DOMAIN rtasks
    /\ rtasks[t].pc = "join"
    /\ rtasks' = [rtasks EXCEPT ![t].pc = "done"]
    /\ UNCHANGED <<disk, mutex, writers, main, callVars>>

\* for f in write_futures: f.result(), and the return of the task.
TaskJoin(t) ==
    /\ t \in DOMAIN rtasks
    /\ rtasks[t].pc = "join"
    /\ LET task == rtasks[t]
       IN  IF task.write_futures = <<>>
           THEN rtasks' = [rtasks EXCEPT ![t].pc = "done"]
           ELSE /\ writers[Head(task.write_futures)].pc \in {"done", "failed"}
                /\ rtasks' = [rtasks EXCEPT ![t] =
                       IF writers[Head(task.write_futures)].pc = "done"
                       THEN [task EXCEPT !.write_futures = Tail(task.write_futures)]
                       ELSE [task EXCEPT !.pc = "failed"]]
    /\ UNCHANGED <<disk, mutex, writers, main, callVars>>

\* A thread of write_pool takes the call: decrypt_aes, zstandard.decompress
\* and the assert on the sha3 of the bytes, any of which raises on a block
\* that was damaged in the store.
WriterStart(w) ==
    /\ w \in DOMAIN writers
    /\ writers[w].pc = "queued"
    /\ Cardinality(Running) < write_pool_size
    /\ \/ writers' = [writers EXCEPT ![w].pc = "lock"]
       \/ writers' = Fail(w, "damaged")
    /\ UNCHANGED <<disk, mutex, rtasks, main, callVars>>

\* A mutex every thread may take at once.
directory_mutex_free_Always == TRUE

\* directory_mutex is not held.
directory_mutex_free == mutex = 0

\* with directory_mutex: the lock is taken.
WriterLock(w) ==
    /\ w \in DOMAIN writers
    /\ writers[w].pc = "lock"
    /\ directory_mutex_free
    /\ mutex' = w
    /\ writers' = [writers EXCEPT ![w].pc = "check"]
    /\ UNCHANGED <<disk, rtasks, main, callVars>>

\* if not restore_path.parent.exists(), and the end of the with block when
\* the directory exists.
WriterCheck(w) ==
    /\ w \in DOMAIN writers
    /\ writers[w].pc = "check"
    /\ IF parent_exists(w)
       THEN /\ mutex' = 0
            /\ writers' = [writers EXCEPT ![w].pc = "open"]
       ELSE /\ writers' = [writers EXCEPT ![w].pc = "mkdir"]
            /\ UNCHANGED mutex
    /\ UNCHANGED <<disk, rtasks, main, callVars>>

\* restore_path.parent.mkdir(parents=True), which raises FileExistsError on a
\* directory that exists, and the end of the with block.
WriterMkdir(w) ==
    /\ w \in DOMAIN writers
    /\ writers[w].pc = "mkdir"
    /\ mutex' = 0
    /\ IF parent_exists(w)
       THEN /\ writers' = Fail(w, "FileExistsError: mkdir")
            /\ UNCHANGED disk
       ELSE /\ disk' = [disk EXCEPT !.dirs = disk.dirs \cup {parent(w)},
                                    !.mkdirs = disk.mkdirs + 1]
            /\ writers' = [writers EXCEPT ![w].pc = "open"]
    /\ UNCHANGED <<rtasks, main, callVars>>

\* restore_path.open('r+b'); FileNotFoundError sends the writer on to create
\* the file.
WriterOpen(w) ==
    /\ w \in DOMAIN writers
    /\ writers[w].pc = "open"
    /\ writers' = [writers EXCEPT ![w].pc =
           IF disk.files[restore_path(w)].exists THEN "write" ELSE "create"]
    /\ UNCHANGED <<disk, mutex, rtasks, main, callVars>>

\* open(path, 'wb'): the file is created, or emptied when it exists.
open_wb(file) == [exists |-> TRUE, data |-> <<>>, opened |-> TRUE, made |-> ~file.exists]

\* open(path, 'xb'): the file is created; FileExistsError when it exists, the
\* file left as it is.
open_xb(file) ==
    IF file.exists
    THEN [exists |-> TRUE, data |-> file.data, opened |-> FALSE, made |-> FALSE]
    ELSE [exists |-> TRUE, data |-> <<>>, opened |-> TRUE, made |-> TRUE]

\* restore_path.open('xb') after FileNotFoundError; FileExistsError sends the
\* writer on to open the file once more.
WriterCreate(w) ==
    /\ w \in DOMAIN writers
    /\ writers[w].pc = "create"
    /\ LET q == restore_path(w)
           f == open_xb(disk.files[q])
       IN  /\ disk' = [disk EXCEPT
                  !.files[q] = [exists |-> f.exists, data |-> f.data],
                  !.creates[q] = disk.creates[q] + (IF f.made THEN 1 ELSE 0)]
           /\ writers' = [writers EXCEPT ![w].pc =
                  IF f.opened THEN "write" ELSE "reopen"]
    /\ UNCHANGED <<mutex, rtasks, main, callVars>>

\* restore_path.open('r+b') after FileExistsError.
WriterReopen(w) ==
    /\ w \in DOMAIN writers
    /\ writers[w].pc = "reopen"
    /\ writers' = IF disk.files[restore_path(w)].exists
                  THEN [writers EXCEPT ![w].pc = "write"]
                  ELSE Fail(w, "FileNotFoundError")
    /\ UNCHANGED <<disk, mutex, rtasks, main, callVars>>

\* f.seek(block_meta.offset); f.write(original_data); f.flush(), and the
\* return of write_restore_block.
WriterWrite(w) ==
    /\ w \in DOMAIN writers
    /\ writers[w].pc = "write"
    /\ LET q == restore_path(w)
           x == fn_call.pairs[w]
       IN  disk' = [disk EXCEPT !.files[q].data =
                       WriteAt(disk.files[q].data, x[2].offset, original_data(x))]
    /\ writers' = [writers EXCEPT ![w].pc = "done"]
    /\ UNCHANGED <<mutex, rtasks, main, callVars>>

\* for fut in restore_futures: fut.result(); a result that raises makes
\* do_restore leave the with block of the pools.
MainAwait ==
    /\ main.pc = "await"
    /\ rtasks[main.i].pc \in {"done", "failed"}
    /\ main' = IF rtasks[main.i].pc = "failed" THEN [main EXCEPT !.pc = "unwind"]
               ELSE IF main.i < Len(rtasks) THEN [main EXCEPT !.i = main.i + 1]
               ELSE [main EXCEPT !.pc = "exit"]
    /\ UNCHANGED <<disk, mutex, writers, rtasks, callVars>>

\* The end of the with block: write_pool and restore_pool are shut down, which
\* waits for every call they were given; then do_restore goes on to what
\* follows the block, or the exception leaves do_restore.
MainExit ==
    /\ main.pc \in {"exit", "unwind"}
    /\ \A w \in DOMAIN writers : Settled(w)
    /\ \A t \in DOMAIN rtasks : rtasks[t].pc \in {"done", "failed"}
    /\ IF main.pc = "exit"
       THEN main' = [main EXCEPT !.pc = "post"] /\ UNCHANGED fn_result
       ELSE main' = [main EXCEPT !.pc = "raised"] /\ fn_result' = Raised
    /\ UNCHANGED <<disk, mutex, writers, rtasks, fn_call>>

\* The second with block of do_restore: the directories of the manifest are
\* made, each file is cut to original_size and its sha1 compared, which
\* raises 'Checksum failed' on a difference.
PostProcess ==
    /\ main.pc = "post"
    /\ LET cut == [q \in DOMAIN WriteFiles |->
                      [exists |-> disk.files[q].exists,
                       data |-> SubSeq(disk.files[q].data, 1,
                                       Min(Len(disk.files[q].data), Len(WriteFiles[q])))]]
           good == \A q \in DOMAIN WriteFiles :
                      cut[q].exists /\ sha1(cut[q].data) = sha1(WriteFiles[q])
       IN  /\ disk' = [disk EXCEPT !.files = cut, !.dirs = disk.dirs \cup {"d"}]
           /\ main' = [main EXCEPT !.pc = IF good THEN "returned" ELSE "raised"]
           /\ fn_result' = IF good THEN [op |-> "returned"] ELSE Raised
    /\ UNCHANGED <<mutex, writers, rtasks, fn_call>>

StoreIdle ==
    /\ files = <<>>
    /\ dc_pc = "run"
    /\ store_calls = <<>>
    /\ meta_uploaded = FALSE
    /\ fb = FileBackend_init
    /\ fb_dir = [n \in {} |-> <<>>]

Init ==
    /\ BackupInit
    /\ backend = "s3"
    /\ StoreIdle
    /\ SeqIdle
    /\ CallIdle
    /\ WriteIdle

Next ==
    \/ WriteHeader /\ UNCHANGED <<s3Vars, seqVars, callVars, writeVars>>
    \/ WalkDirectory /\ UNCHANGED <<s3Vars, seqVars, callVars, writeVars>>
    \/ WalkFile /\ UNCHANGED <<s3Vars, seqVars, callVars, writeVars>>
    \/ ReaderRead /\ UNCHANGED <<s3Vars, seqVars, callVars, writeVars>>
    \/ ReaderEnd /\ UNCHANGED <<s3Vars, seqVars, callVars, writeVars>>
    \/ HasherStep /\ UNCHANGED <<s3Vars, seqVars, callVars, writeVars>>
    \/ \E w \in Workers : WorkerGet(w) /\ UNCHANGED <<s3Vars, seqVars, callVars, writeVars>>
    \/ \E w \in Workers : WorkerProcess(w) /\ UNCHANGED <<s3Vars, seqVars, callVars, writeVars>>
    \/ StorerGet /\ UNCHANGED <<s3Vars, seqVars, callVars, writeVars>>
    \/ StorerStore /\ UNCHANGED <<s3Vars, seqVars, callVars, writeVars>>
    \/ WriteSummary /\ UNCHANGED <<s3Vars, seqVars, callVars, writeVars>>
    \/ FinishBackup /\ UNCHANGED <<s3Vars, seqVars, callVars, writeVars>>

Spec == Init /\ [][Next]_vars

\* One run of do_backup in which the threads of the pipeline may raise.  The
\* threads and the driver are scheduled whenever they can take a step.
FailInit ==
    /\ Init
    /\ previous_backup_meta = [present |-> FALSE, blocks |-> PrevIndex({})]
    /\ Len(tree["a"].data) + Len(tree["d/b"].data) <= MaxFailTreeBytes

FailNext ==
    \/ Next
    \/ ReaderRaises /\ UNCHANGED <<s3Vars, seqVars, callVars, writeVars>>
    \/ HasherRaises /\ UNCHANGED <<s3Vars, seqVars, callVars, writeVars>>
    \/ \E w \in Workers : WorkerRaises(w) /\ UNCHANGED <<s3Vars, seqVars, callVars, writeVars>>
    \/ StorerRaises /\ UNCHANGED <<s3Vars, seqVars, callVars, writeVars>>
    \/ PipelineRaises /\ UNCHANGED <<s3Vars, seqVars, callVars, writeVars>>

SpecFail == FailInit /\ [][FailNext]_vars /\ WF_vars(FailNext)

\* One run of do_backup of a file of more blocks than the threads hold, with
\* no failure, the threads and the driver scheduled whenever they can take a
\* step.
LiveInit ==
    /\ tree \in {[p \in Paths |->
                     IF p = "a"
                     THEN FileEntry([i \in 1..n |-> IF i <= 2 * k THEN 1 ELSE 0])
                     ELSE IF p = "d" THEN DirEntry ELSE NoEntry] :
                 n \in {LiveFileBytes}, k \in {1}}
    /\ previous_backup_meta = [present |-> FALSE, blocks |-> PrevIndex({})]
    /\ RunInit
    /\ backend = "s3"
    /\ StoreIdle
    /\ SeqIdle
    /\ CallIdle
    /\ WriteIdle

SpecLive == LiveInit /\ [][Next]_vars /\ WF_vars(Next)

\* A producer of blocks on a data collector or on a FileBackend, the tasks of
\* the collector's pools, and the calls of the store failing or not.
StoreInit ==
    /\ BackupInit
    /\ tree = [p \in Paths |-> NoEntry]
    /\ previous_backup_meta = [present |-> FALSE, blocks |-> PrevIndex({})]
    /\ backend \in {"s3", "file"}
    /\ StoreIdle
    /\ SeqIdle
    /\ CallIdle
    /\ WriteIdle

StoreNext ==
    \/ StoreBlock /\ UNCHANGED <<runVars, seqVars, callVars, writeVars>>
    \/ \E f \in DOMAIN files : CreateMultipartUpload(f) /\ UNCHANGED <<runVars, seqVars, callVars, writeVars>>
    \/ \E f \in DOMAIN files : \E p \in DOMAIN files[f].parts :
          UploadStart(f, p) /\ UNCHANGED <<runVars, seqVars, callVars, writeVars>>
    \/ \E f \in DOMAIN files : \E p \in DOMAIN files[f].parts :
          UploadPart(f, p) /\ UNCHANGED <<runVars, seqVars, callVars, writeVars>>
    \/ \E f \in DOMAIN files : Complete(f) /\ UNCHANGED <<runVars, seqVars, callVars, writeVars>>
    \/ \E f \in DOMAIN files : Abort(f) /\ UNCHANGED <<runVars, seqVars, callVars, writeVars>>
    \/ CollectorClose /\ UNCHANGED <<runVars, seqVars, callVars, writeVars>>
    \/ CollectorCloseReturn /\ UNCHANGED <<runVars, seqVars, callVars, writeVars>>
    \/ CollectorExit /\ UNCHANGED <<runVars, seqVars, callVars, writeVars>>
    \/ CollectorExitReturn /\ UNCHANGED <<runVars, seqVars, callVars, writeVars>>
    \/ UploadMeta /\ UNCHANGED <<runVars, seqVars, callVars, writeVars>>
    \/ WriteDataChunk /\ UNCHANGED <<runVars, seqVars, callVars, writeVars>>
    \/ CloseDataFile /\ UNCHANGED <<runVars, seqVars, callVars, writeVars>>

SpecStore == StoreInit /\ [][StoreNext]_vars

\* Chunks written through a ChunkAdapter on a FileBackend.
ChunksInit ==
    /\ BackupInit
    /\ tree = [p \in Paths |-> NoEntry]
    /\ previous_backup_meta = [present |-> FALSE, blocks |-> PrevIndex({})]
    /\ backend = "adapter"
    /\ StoreIdle
    /\ SeqIdle
    /\ CallIdle
    /\ WriteIdle

ChunksNext ==
    \/ AdapterWriteDataChunk /\ UNCHANGED <<runVars, seqVars, callVars, writeVars>>
    \/ AdapterCloseDataFile /\ UNCHANGED <<runVars, seqVars, callVars, writeVars>>

SpecChunks == ChunksInit /\ [][ChunksNext]_vars

\* No run of any kind is going on: the state the calls of single functions
\* are made in.
NoRun ==
    /\ WriteIdle
    /\ BackupInit
    /\ tree = [p \in Paths |-> NoEntry]
    /\ previous_backup_meta = [present |-> FALSE, blocks |-> PrevIndex({})]
    /\ backend = "s3"
    /\ StoreIdle
    /\ SeqIdle

\* Calls of S3Backend.retrieve_file_ranges on one object, exhausted by the
\* caller.
RangesInit ==
    /\ NoRun
    /\ fn_call \in [op : {"retrieve_file_ranges"}, object : S3Objects,
                    offset_size_list : OffsetSizeLists]
    /\ fn_result = Idle

RangesNext ==
    \/ RetrieveFileRanges /\ UNCHANGED <<backupVars, s3Vars, seqVars, writeVars>>

SpecRanges == RangesInit /\ [][RangesNext]_vars

\* do_restore planning the restore of the manifests of PlanInputs.
PlanInit ==
    /\ NoRun
    /\ fn_call \in [op : {"restore_tasks"}, pairs : PlanInputs]
    /\ fn_result = Idle

PlanNext ==
    \/ PlanRestore /\ UNCHANGED <<backupVars, s3Vars, seqVars, writeVars>>

SpecPlan == PlanInit /\ [][PlanNext]_vars

\* The threads of one do_restore into an empty directory, from the submission
\* of the restore tasks on, scheduled whenever they can take a step; a block
\* may be damaged in the store and retrieve_file_ranges may raise.
WriteInit ==
    /\ NoRun
    /\ fn_call \in [op : {"do_restore"},
                    pairs : {WritePairs(f) : f \in [1..3 -> 1..MaxPlanFiles]}]
    /\ fn_result = Idle

WriteNext ==
    \/ SubmitTasks /\ UNCHANGED <<backupVars, s3Vars, seqVars>>
    \/ \E t \in DOMAIN rtasks : TaskFetch(t) /\ UNCHANGED <<backupVars, s3Vars, seqVars>>
    \/ \E t \in DOMAIN rtasks : TaskSubmit(t) /\ UNCHANGED <<backupVars, s3Vars, seqVars>>
    \/ \E t \in DOMAIN rtasks : TaskWait(t) /\ UNCHANGED <<backupVars, s3Vars, seqVars>>
    \/ \E t \in DOMAIN rtasks : TaskJoin(t) /\ UNCHANGED <<backupVars, s3Vars, seqVars>>
    \/ \E w \in DOMAIN writers : WriterStart(w) /\ UNCHANGED <<backupVars, s3Vars, seqVars>>
    \/ \E w \in DOMAIN writers : WriterLock(w) /\ UNCHANGED <<backupVars, s3Vars, seqVars>>
    \/ \E w \in DOMAIN writers : WriterCheck(w) /\ UNCHANGED <<backupVars, s3Vars, seqVars>>
    \/ \E w \in DOMAIN writers : WriterMkdir(w) /\ UNCHANGED <<backupVars, s3Vars, seqVars>>
    \/ \E w \in DOMAIN writers : WriterOpen(w) /\ UNCHANGED <<backupVars, s3Vars, seqVars>>
    \/ \E w \in DOMAIN writers : WriterCreate(w) /\ UNCHANGED <<backupVars, s3Vars, seqVars>>
    \/ \E w \in DOMAIN writers : WriterReopen(w) /\ UNCHANGED <<backupVars, s3Vars, seqVars>>
    \/ \E w \in DOMAIN writers : WriterWrite(w) /\ UNCHANGED <<backupVars, s3Vars, seqVars>>
    \/ MainAwait /\ UNCHANGED <<backupVars, s3Vars, seqVars>>
    \/ MainExit /\ UNCHANGED <<backupVars, s3Vars, seqVars>>
    \/ PostProcess /\ UNCHANGED <<backupVars, s3Vars, seqVars>>

SpecWrite == WriteInit /\ [][WriteNext]_vars /\ WF_vars(WriteNext)

\* BackupMetaReader of backup.py and of helpers/metadata_file.py, on the
\* manifests do_backup writes and on any sequence of records.
ReaderInit ==
    /\ NoRun
    /\ fn_call \in
          [op : {"BackupMetaReader"}, impl : {"backup", "metadata_file"},
           records : WrittenManifests, written : {TRUE}]
          \cup
          [op : {"BackupMetaReader"}, impl : {"backup", "metadata_file"},
           records : RecordSeqs, written : {FALSE}]
    /\ fn_result = Idle

ReaderNext ==
    \/ ReadMeta /\ UNCHANGED <<backupVars, s3Vars, seqVars, writeVars>>

SpecReader == ReaderInit /\ [][ReaderNext]_vars

\* Backups and restores of operations.py on one FileBackend directory, as
\* the seconds pass.
OpsInit ==
    /\ NoRun
    /\ CallIdle

OpsNext ==
    \/ OpsTick /\ UNCHANGED <<backupVars, backend, files, dc_pc, store_calls,
                              meta_uploaded, fb, remote_data, remote_meta,
                              last_meta, uploads, fresh_key, meta_reader,
                              local_path, restore_log, callVars, writeVars>>
    \/ OpsBackup /\ UNCHANGED <<backupVars, backend, files, dc_pc, store_calls,
                                meta_uploaded, fb, remote_data, remote_meta,
                                last_meta, uploads, fresh_key, meta_reader,
                                local_path, restore_log, callVars, writeVars>>
    \/ OpsRestore /\ UNCHANGED <<backupVars, backend, files, dc_pc, store_calls,
                                 meta_uploaded, fb, remote_data, remote_meta,
                                 last_meta, uploads, fresh_key, meta_reader,
                                 local_path, restore_log, callVars, writeVars>>

SpecOps == OpsInit /\ [][OpsNext]_vars

\* Incremental backups of operations.backup to one backend, each with a
\* reuse_backup_count of its own, and restores of the latest.
KeysInit ==
    /\ NoRun
    /\ CallIdle

KeysNext ==
    \/ KeysBackup /\ UNCHANGED <<backupVars, s3Vars, clock, remote_data,
                                 remote_meta, last_meta, uploads, meta_reader,
                                 local_path, restore_log, callVars, writeVars>>
    \/ KeysRestore /\ UNCHANGED <<backupVars, s3Vars, clock, remote_data,
                                  remote_meta, last_meta, uploads, meta_reader,
                                  local_path, restore_log, callVars, writeVars>>

SpecKeys == KeysInit /\ [][KeysNext]_vars

\* Runs of do_backup to one destination one after another, the clock, and a
\* do_restore of the latest manifest.
SeqInit ==
    /\ BackupInit
    /\ tree = [p \in Paths |-> NoEntry]
    /\ previous_backup_meta = [present |-> FALSE, blocks |-> PrevIndex({})]
    /\ backend = "s3"
    /\ StoreIdle
    /\ clock = 1
    /\ remote_data = [n \in {} |-> <<>>]
    /\ remote_meta = [i \in {} |-> <<>>]
    /\ last_meta = [n \in CacheNames |-> NoCacheFile]
    /\ uploads = <<>>
    /\ runs = <<>>
    /\ fresh_key = 2
    /\ meta_reader \in {"backup", "metadata_file"}
    /\ restored = [status |-> "none", kind |-> "none", tree |-> [p \in Paths |-> NoEntry]]
    /\ local_path = Absent
    /\ restore_log = <<>>
    /\ CallIdle
    /\ WriteIdle

SeqNext ==
    \/ Tick /\ UNCHANGED <<backupVars, s3Vars, callVars, writeVars>>
    \/ DoBackup /\ UNCHANGED <<backupVars, s3Vars, callVars, writeVars>>
    \/ DoRestore /\ UNCHANGED <<backupVars, s3Vars, callVars, writeVars>>

SpecSeq == SeqInit /\ [][SeqNext]_vars

\* Backups of two local paths to one destination, in processes with
\* different default block sizes, killed or not while the cache is replaced.
CacheInit ==
    /\ SeqInit
    /\ meta_reader = "backup"

CacheNext ==
    \/ Tick /\ UNCHANGED <<backupVars, s3Vars, callVars, writeVars>>
    \/ DoBackupFrom /\ UNCHANGED <<backupVars, s3Vars, callVars, writeVars>>
    \/ CacheUnlink /\ UNCHANGED <<backupVars, s3Vars, callVars, writeVars>>
    \/ CacheMove /\ UNCHANGED <<backupVars, s3Vars, callVars, writeVars>>
    \/ InterruptBackup /\ UNCHANGED <<backupVars, s3Vars, callVars, writeVars>>

SpecCache == CacheInit /\ [][CacheNext]_vars

\* The first backup of a source tree is in the store; do_restore runs on a
\* target, is interrupted or not, and runs again; the store may be damaged.
RestoreStart ==
    /\ BackupInit
    /\ Len(tree["a"].data) + Len(tree["d/b"].data) <= MaxSeqTreeBytes
    /\ previous_backup_meta = [present |-> FALSE, blocks |-> PrevIndex({})]
    /\ backend = "s3"
    /\ StoreIdle
    /\ clock = 1
    /\ remote_data = InitRun.objects
    /\ remote_meta = [i \in {1} |-> InitRun.records]
    /\ last_meta = [n \in CacheNames |->
                       IF n = cache_name("/src1", backup_url)
                       THEN CacheFile(InitRun.records) ELSE NoCacheFile]
    /\ uploads = [k \in 1..InitRun.collector.file_number |-> DataFileName(1, k - 1)]
    /\ runs = <<[id |-> 1, tree |-> tree, status |-> "ok",
                 local_path |-> "/src1", configured |-> default_block_size,
                 cached |-> NoCacheFile, records |-> InitRun.records]>>
    /\ fresh_key = InitRun.next_key
    /\ meta_reader \in {"backup", "metadata_file"}
    /\ restored = [status |-> "none", kind |-> "none", tree |-> [p \in Paths |-> NoEntry]]
    /\ restore_log = <<>>
    /\ CallIdle
    /\ WriteIdle

RestoreInit ==
    /\ RestoreStart
    /\ local_path \in InitTargets

RestoreNext ==
    \/ Restore /\ UNCHANGED <<backupVars, s3Vars, callVars, writeVars>>
    \/ InterruptedRestore /\ UNCHANGED <<backupVars, s3Vars, callVars, writeVars>>
    \/ DamageData /\ UNCHANGED <<backupVars, s3Vars, callVars, writeVars>>
    \/ DamageManifest /\ UNCHANGED <<backupVars, s3Vars, callVars, writeVars>>

SpecRestore == RestoreInit /\ [][RestoreNext]_vars

\* The first backup of a source tree is in the store; do_restore runs, and is
\* interrupted or not, on a target that holds a file of any bytes where a
\* file of the backup is restored: as local_path itself, or as "a" in the
\* directory local_path.
ExistingTargets ==
    {Absent, EmptyDir}
    \cup {Target("file", NoTree, c) : c \in ExistingContents}
    \cup {Target("dir", [NoTree EXCEPT !["a"] = FileEntry(c)], <<>>) :
             c \in ExistingContents}

ExistingInit ==
    /\ RestoreStart
    /\ local_path \in ExistingTargets

ExistingNext ==
    \/ Restore /\ UNCHANGED <<backupVars, s3Vars, callVars, writeVars>>
    \/ InterruptedRestore /\ UNCHANGED <<backupVars, s3Vars, callVars, writeVars>>

SpecExisting == ExistingInit /\ [][ExistingNext]_vars

\* ------------------------------------------------- properties of one run

Records == DOMAIN meta_file

IsData(i) == meta_file[i].kind = "file_data"

\* The path of the file record that a record of the manifest comes after.
FileOf(i) ==
    LET F == {j \in 1..(i - 1) : meta_file[j].kind = "file"}
    IN IF F = {} THEN ""
       ELSE meta_file[CHOOSE j \in F : \A k \in F : k <= j].path

\* C4: the file_data records of a file are written in ascending offset: the
\* first at offset 0, each following one at the previous offset plus the
\* previous size, every size at least 1 and equal to block_size except
\* possibly the last, and the sizes sum to the size of file_summary, which is
\* the size of the file.
C4_FileDataContiguous ==
    \A i \in Records :
        /\ IsData(i) =>
              /\ i > 1
              /\ meta_file[i].size >= 1
              /\ meta_file[i].size <= default_block_size
              /\ meta_file[i - 1].kind \in {"file", "file_data"}
              /\ meta_file[i - 1].kind = "file" => meta_file[i].offset = 0
              /\ meta_file[i - 1].kind = "file_data" =>
                    /\ meta_file[i - 1].size = default_block_size
                    /\ meta_file[i].offset =
                           meta_file[i - 1].offset + meta_file[i - 1].size
        /\ meta_file[i].kind = "file_summary" =>
              /\ i > 1
              /\ meta_file[i].size = Len(tree[FileOf(i)].data)
              /\ meta_file[i].size =
                     IF IsData(i - 1)
                     THEN meta_file[i - 1].offset + meta_file[i - 1].size
                     ELSE 0

\* A finished run with a file of a full block and a short last block, with an
\* empty file and with a file of exactly one block.
C4_Witness ==
    /\ pc = "done"
    /\ \E i \in Records :
          /\ IsData(i) /\ meta_file[i].offset = default_block_size
          /\ meta_file[i].size < default_block_size
          /\ meta_file[i + 1].kind = "file_summary"
    /\ \E i \in Records :
          /\ meta_file[i].kind = "file"
          /\ meta_file[i + 1].kind = "file_summary"
          /\ meta_file[i + 1].size = 0

\* C5: the manifest starts with the one baq_backup header; a file record is
\* followed only by file_data records of that file and then its one
\* file_summary before any file or directory record is written; no file_data
\* or file_summary of a file is written after the file record of a later file.
C5_ManifestOrder ==
    /\ \A i \in Records : (meta_file[i].kind = "baq_backup") <=> (i = 1)
    /\ \A i \in Records \ {1} :
          /\ meta_file[i].kind \in {"file_data", "file_summary"} =>
                /\ meta_file[i - 1].kind \in {"file", "file_data"}
                /\ meta_owner[i] = FileOf(i)
          /\ meta_file[i].kind \in {"file", "directory"} =>
                meta_file[i - 1].kind \in {"baq_backup", "directory", "file_summary"}
    /\ pc = "done" =>
          meta_file[Len(meta_file)].kind \in {"baq_backup", "directory", "file_summary"}

\* A finished run of two files, both with file_data records.
C5_Witness ==
    /\ pc = "done"
    /\ \E i, j \in Records :
          /\ i < j
          /\ IsData(i) /\ IsData(j)
          /\ meta_owner[i] = "a" /\ meta_owner[j] = "d/b"

\* C6: each block_id is passed to store_block at most once, and all file_data
\* records with the same sha3 cite the same store_file, store_offset,
\* store_size and aes_key.
C6_StoredOnce ==
    /\ \A i, j \in DOMAIN store_log : store_log[i] = store_log[j] => i = j
    /\ \A i, j \in Records :
          (IsData(i) /\ IsData(j) /\ meta_file[i].sha3 = meta_file[j].sha3) =>
              /\ meta_file[i].store_file = meta_file[j].store_file
              /\ meta_file[i].store_offset = meta_file[j].store_offset
              /\ meta_file[i].store_size = meta_file[j].store_size
              /\ meta_file[i].aes_key = meta_file[j].aes_key

\* Two workers found the same new block unknown, and store_thread has written
\* the records of both, after one store_block call.
C6_Witness ==
    /\ Len(futs) >= 2
    /\ ~futs[1].waiting /\ ~futs[2].waiting
    /\ futs[1].meta = NoBlock /\ futs[2].meta = NoBlock
    /\ futs[1].sha3 = futs[2].sha3
    /\ Len(meta_file) >= 2
    /\ IsData(Len(meta_file)) /\ IsData(Len(meta_file) - 1)
    /\ meta_file[Len(meta_file)].offset = default_block_size
    /\ meta_file[Len(meta_file)].sha3 = futs[2].sha3
    /\ meta_file[Len(meta_file) - 1].sha3 = futs[1].sha3
    /\ Len(store_log) = 1

\* C7: a block whose sha3 is in the index of the prior manifest is never
\* passed to store_block, and its record cites the prior data file, offset,
\* size and key, not the key of the current file.
C7_PriorBlocksReused ==
    /\ \A i \in DOMAIN store_log :
          get_block_by_sha3(previous_backup_meta, store_log[i]) = NoBlock
    /\ \A i \in Records :
          (IsData(i) /\ get_block_by_sha3(previous_backup_meta, meta_file[i].sha3) # NoBlock) =>
              LET prev == get_block_by_sha3(previous_backup_meta, meta_file[i].sha3)
              IN /\ meta_file[i].store_file = prev.store_file
                 /\ meta_file[i].store_file.backup_id # backup_id
                 /\ meta_file[i].store_offset = prev.store_offset
                 /\ meta_file[i].store_size = prev.store_size
                 /\ meta_file[i].aes_key = prev.aes_key
                 /\ meta_file[i].aes_key # aes_key

\* A finished run that wrote a record of a block of the prior index and
\* stored another block itself.
C7_Witness ==
    /\ pc = "done"
    /\ store_log # <<>>
    /\ \E i \in Records :
          /\ IsData(i)
          /\ get_block_by_sha3(previous_backup_meta, meta_file[i].sha3) # NoBlock

\* ------------------------------------------- properties of the collector

RECURSIVE WrittenBefore(_, _)
\* The bytes of the calls before call i that went to the data file of call i.
WrittenBefore(i, j) ==
    IF j = 0 THEN <<>>
    ELSE WrittenBefore(i, j - 1) \o
         (IF j < i /\ store_calls[j].filename = store_calls[i].filename
          THEN store_calls[j].data ELSE <<>>)

\* The bytes written to a data file so far.
DataFileBytes(name) ==
    IF backend = "file" THEN fb_dir[name]
    ELSE File_written(files[CHOOSE f \in DOMAIN files : files[f].key = name])

\* C3: the offset returned for a block is the total length of the blocks
\* written before it to the same data file: the ranges of the blocks of a
\* data file start at 0, are contiguous and disjoint and follow call order,
\* and the block is what the data file holds at its range.
C3_OffsetIsBytesBefore ==
    \A i \in DOMAIN store_calls :
        LET c == store_calls[i]
        IN /\ c.offset = Len(WrittenBefore(i, i))
           /\ (\A j \in 1..(i - 1) : store_calls[j].filename # c.filename) =>
                  c.offset = 0
           /\ SubSeq(DataFileBytes(c.filename), c.offset + 1,
                     c.offset + Len(c.data)) = c.data

\* The collector has returned a second offset in a data file, rolled over,
\* and returned the first offset of the next data file.
C3_Witness ==
    /\ backend = "s3"
    /\ Len(store_calls) = MaxCalls
    /\ store_calls[2].filename = store_calls[1].filename
    /\ store_calls[2].offset > 0
    /\ store_calls[MaxCalls].filename # store_calls[1].filename
    /\ store_calls[MaxCalls].offset = 0

FailedSomewhere(f) ==
    \/ f.create_fut = "failed"
    \/ \E p \in DOMAIN f.parts : f.parts[p].st = "failed"
    \/ f.complete_failed

\* C9: when the .meta object of the backup exists, every data file of the
\* backup has been completed; when the create call, a part upload or the
\* completion of a data file has failed, close() does not return, so that
\* do_backup raises, and the .meta object is not uploaded.
C9_MetaOnlyAfterDataFiles ==
    /\ meta_uploaded => \A f \in DOMAIN files : files[f].mpu = "completed"
    /\ (\E f \in DOMAIN files : FailedSomewhere(files[f])) =>
          /\ ~meta_uploaded
          /\ dc_pc # "closed"
          /\ dc_pc = "closing" /\ StackClosed => CloseRaises(files)

\* close() has raised: the completion of a data file that was closed by
\* rollover had failed, the data file after it was completed.
C9_Witness ==
    /\ dc_pc = "raised"
    /\ Len(files) = 2
    /\ files[1].complete_failed
    /\ files[2].mpu = "completed"
    /\ ~meta_uploaded

\* C10: when the create call or a part upload of a data file has failed,
\* then once close() was called on the file and its finish task is over, the
\* multipart upload is not completed and, if it was created, it is aborted.
C10_FailedUploadAborted ==
    \A f \in DOMAIN files :
        (/\ files[f].close_task = "complete"
         /\ files[f].close_fut \in {"ok", "failed"}
         /\ \/ files[f].create_fut = "failed"
            \/ \E p \in DOMAIN files[f].parts : files[f].parts[p].st = "failed") =>
            /\ files[f].mpu # "completed"
            /\ files[f].mpu # "open"

\* ------------------------------------------ properties of runs in sequence

\* The run of the pipeline under every interleaving ends with the manifest
\* and the data files of the run taken as one step.
PipelineAgreesWithRun ==
    pc = "done" =>
        LET prev == [present |-> previous_backup_meta.present,
                     blocks |-> previous_backup_meta.blocks,
                     block_size |-> default_block_size]
            run == BackupRun(tree, prev, backup_id, 2, default_block_size)
        IN /\ meta_file = run.records
           /\ objects = run.objects
           /\ collector.file_number = run.collector.file_number

\* C1: a restore of the manifest of a successful backup of a tree into a path
\* that does not exist or is an empty directory succeeds and leaves a
\* directory with the paths of the tree and, for every file, its bytes.  It is
\* stated for the first backup to a destination.
C1_RoundTrip ==
    (restored.status # "none" /\ Len(runs) = 1) =>
        /\ restored.status = "ok"
        /\ restored.kind = "dir"
        /\ restored.tree = runs[1].tree

DataRecords(records) == {i \in DOMAIN records : records[i].kind = "file_data"}

\* The object named by a file_data record holds, at the record's range, the
\* stored form of a block with the record's sha3 and size, under its aes_key.
RecordAddressesBlock(rec) ==
    /\ rec.store_file \in DOMAIN remote_data
    /\ LET stored == Slice(remote_data[rec.store_file], rec.store_offset,
                           rec.store_offset + rec.store_size)
           block == zstd_decompress(decrypt_aes(stored, rec.aes_key))
       IN /\ Len(stored) = rec.store_size
          /\ sha3_512(block) = rec.sha3
          /\ Len(block) = rec.size

\* C2: after a successful backup every file_data record of its manifest,
\* of a new block or of a reused one, addresses the stored form of its block.
C2_AddressStability ==
    (runs # <<>> /\ runs[Len(runs)].status = "ok") =>
        \A i \in DataRecords(runs[Len(runs)].records) :
            RecordAddressesBlock(runs[Len(runs)].records[i])

\* C8: over the backups to a destination, no data object name is produced by
\* more than one multipart upload.
C8_DataNamesUnique ==
    \A i, j \in DOMAIN uploads : uploads[i] = uploads[j] => i = j

\* ------------------------------------------ more properties of the collector

\* C11: when complete_multipart_upload of a data file fails, the upload is
\* aborted and S3DataCollector.close() does not return normally, for the
\* current data file and for one closed earlier by rollover.
C11_CompletionFailureAbortsAndRaises ==
    \A f \in DOMAIN files :
        files[f].complete_failed =>
            /\ files[f].mpu = "aborted"
            /\ dc_pc # "closed"

\* close() has raised with the completion of both the rolled-over data file
\* and the current one failed.
C11_Witness ==
    /\ dc_pc = "raised"
    /\ Len(files) = 2
    /\ files[1].complete_failed
    /\ files[2].complete_failed
    /\ files[1].mpu = "aborted"
    /\ files[2].mpu = "aborted"

\* C12: once the collector's scope exit has returned, a data file that was
\* not closed has no multipart upload left open.
C12_ExitAbortsUnclosed ==
    dc_pc = "exited" =>
        \A f \in DOMAIN files :
            files[f].close_task = "abort" => files[f].mpu # "open"

\* C19: no data file holds more than data_file_size bytes.
C19_DataFileCapped ==
    \A f \in DOMAIN files : Len(File_written(files[f])) <= data_file_size

\* The parts of a data file that are scheduled and whose upload has not
\* finished.
InFlightParts(f) ==
    {p \in DOMAIN files[f].parts : files[f].parts[p].st \in {"queued", "started"}}

\* C20: at most max_waiting_uploads scheduled parts of a data file are in
\* flight, scheduled and not yet uploaded, at any moment.
C20_InFlightPartsCapped ==
    \A f \in DOMAIN files : Cardinality(InFlightParts(f)) <= max_waiting_uploads

\* ------------------------------------------------- failures in the pipeline

\* C13: when a thread of the per-file pipeline has raised,
\* backup_file_contents eventually returns by raising.
C13_FailureSurfaces == (pc = "pipeline" /\ ThreadFailed) ~> (pc = "raised")

\* ----------------------------------------------------- properties of restore

RestoredEntry(tgt, p) ==
    IF tgt.kind = "dir" THEN tgt.tree[p] ELSE FileEntry(tgt.data)

\* C15: a do_restore that follows interrupted ones on a path that did not
\* exist or was an empty directory returns, and every file of the source tree
\* is on the target with its bytes.
C15_ResumedRestoreCompletes ==
    \A i \in 2..Len(restore_log) :
        (/\ Undamaged
         /\ restore_log[1].before \in {Absent, EmptyDir}
         /\ \A j \in 1..(i - 1) : restore_log[j].status = "interrupted"
         /\ restore_log[i].status # "interrupted") =>
            /\ restore_log[i].status = "ok"
            /\ \A p \in Paths : tree[p].kind = "file" =>
                   RestoredEntry(restore_log[i].target, p) = tree[p]

RangeBytes(tgt, onto, p, b) ==
    IF HasFile(tgt, onto, p)
    THEN Slice(FileBytes(tgt, onto, p), b.offset, b.offset + b.size)
    ELSE <<>>

\* The bytes old of a range, or old and after it the zero bytes of the hole
\* that a write past it has left.
Untouched(old, new) ==
    \E n \in 0..default_block_size :
        new = old \o [i \in 1..n |-> 0]

ScheduledUnder(f, n) == files[f].parts[n].part_data

\* C21: the parts of a data file are numbered 1, 2, 3, ... in the order they
\* are scheduled, and the request of complete_multipart_upload names
\* PartNumber 1..n in that order, each with the ETag and the SHA-1 returned by
\* the upload of the bytes scheduled under that number, and its aggregate
\* checksum is taken over these SHA-1 digests in that order, in whatever
\* order the uploads have finished.
C21_PartsInScheduleOrder ==
    \A f \in DOMAIN files :
        /\ \A n \in DOMAIN files[f].parts : files[f].parts[n].part_number = n
        /\ files[f].complete_call # NoCall =>
              LET call == files[f].complete_call
                  n == Len(files[f].parts)
              IN /\ DOMAIN call.Parts = 1..n
                 /\ \A i \in 1..n :
                       /\ call.Parts[i].PartNumber = i
                       /\ call.Parts[i].ETag =
                              ETag(files[f].key, i, ScheduledUnder(f, i))
                       /\ call.Parts[i].ChecksumSHA1 = sha1(ScheduledUnder(f, i))
                 /\ call.ChecksumSHA1 =
                        sha1([i \in 1..n |-> sha1(ScheduledUnder(f, i))])

\* A data file of three parts is completed after its uploads finished in the
\* order 3, 1, 2.
C21_Witness ==
    \E f \in DOMAIN files :
        /\ files[f].complete_call # NoCall
        /\ files[f].finished = <<3, 1, 2>>

\* ------------------------------------------------ the cached last manifest

\* The file_data records of a manifest cut every file into blocks of size bs,
\* the last block of a file possibly shorter.
CutBy(records, bs) ==
    \A i \in DOMAIN records :
        records[i].kind = "file_data" =>
            /\ records[i].size \in 1..bs
            /\ records[i].offset % bs = 0
            /\ records[i + 1].kind = "file_data" => records[i].size = bs

\* C22: a backup that finds a cached manifest cuts blocks of the block_size
\* of the cached header and writes that block_size into its own header,
\* whatever default its process is configured with; so the headers of
\* successful backups of one cache entry, with no failed run of that entry
\* between them, all hold one block_size.
C22_BlockSizeInherited ==
    /\ \A j \in DOMAIN runs :
          (runs[j].cached.present /\ runs[j].status # "raised") =>
              /\ runs[j].records[1].block_size = runs[j].cached.records[1].block_size
              /\ CutBy(runs[j].records, runs[j].cached.records[1].block_size)
    /\ \A i, j \in DOMAIN runs :
          (/\ i < j
           /\ runs[j].status # "raised"
           /\ runs[i].local_path = runs[j].local_path
           /\ \A k \in i..(j - 1) :
                 runs[k].local_path = runs[i].local_path => runs[k].status = "ok")
          => runs[j].records[1].block_size = runs[i].records[1].block_size

\* A backup in a process configured with block size 2 has found the cached
\* manifest of a backup with block size 1 and has cut a file into two blocks.
C22_Witness ==
    /\ Len(runs) = 2
    /\ runs[1].status = "ok"
    /\ runs[2].status = "ok"
    /\ runs[2].cached.present
    /\ runs[1].records[1].block_size = 1
    /\ runs[2].configured = 2
    /\ Cardinality(DataRecords(runs[2].records)) = 2

\* The address a manifest gives the block with digest h.
AddressOf(records, h) ==
    LET i == CHOOSE k \in DataRecords(records) : records[k].sha3 = h
    IN <<records[i].store_file, records[i].store_offset, records[i].store_size>>

\* C23: the cache entry of a backup is determined by the destination URL
\* alone: a successful backup that follows a successful backup to the same
\* destination reuses the blocks of that backup, also when the local paths
\* of the two differ.
C23_CacheByDestinationAlone ==
    \A j \in DOMAIN runs :
        (/\ j > 1
         /\ runs[j - 1].status = "ok"
         /\ runs[j].status # "raised"
         /\ runs[j - 1].id # runs[j].id) =>
            \A i \in DataRecords(runs[j].records) :
                LET h == runs[j].records[i].sha3 IN
                (\E k \in DataRecords(runs[j - 1].records) :
                     runs[j - 1].records[k].sha3 = h)
                => <<runs[j].records[i].store_file, runs[j].records[i].store_offset,
                     runs[j].records[i].store_size>>
                       = AddressOf(runs[j - 1].records, h)

\* The blocks of a manifest whose digest the cached manifest of its run holds
\* are recorded at the address the cached manifest gives them.
ReusesCached(r) ==
    \A i \in DataRecords(r.records) :
        LET h == r.records[i].sha3 IN
        (\E k \in DataRecords(r.cached.records) : r.cached.records[k].sha3 = h)
        => <<r.records[i].store_file, r.records[i].store_offset,
             r.records[i].store_size>> = AddressOf(r.cached.records, h)

\* A whole cached manifest that a backup finds is the manifest of an earlier
\* successful backup of the same local path, and the backup records the
\* blocks that manifest holds at their addresses in it.
CacheOfSamePathReused ==
    \A j \in DOMAIN runs :
        LET r == runs[j] IN
        (r.cached.present /\ r.cached.whole) =>
            /\ \E i \in 1..(j - 1) :
                  /\ runs[i].local_path = r.local_path
                  /\ runs[i].status = "ok"
                  /\ runs[i].records = r.cached.records
            /\ r.status # "raised" => ReusesCached(r)

\* C24: the cached last-meta file is replaced only after the .meta object of
\* the backup is uploaded, and atomically: once a cache path holds a file, it
\* holds at every point of a backup, interrupted or not, the whole manifest
\* of the previous backup of the entry or the whole manifest of the new one.
C24_CacheReplacedAtomically ==
    \A j \in DOMAIN runs :
        LET r == runs[j]
            file == last_meta[cache_name(r.local_path, backup_url)]
        IN (j = Len(runs) /\ r.cached.present /\ r.status # "raised") =>
              /\ file.present
              /\ file.whole
              /\ file.records \in {r.cached.records, r.records}
              /\ file.records = r.records /\ r.records # r.cached.records
                    => r.id \in DOMAIN remote_meta /\ remote_meta[r.id] = r.records

\* C25: the baq_backup header record of a backup holds format_version 1, the
\* backup_id of the run, the block_size used and the single_file flag.
C25_HeaderFields ==
    meta_file # <<>> =>
        LET header == meta_file[1] IN
        /\ header.kind = "baq_backup"
        /\ header.format_version = 1
        /\ header.block_size = default_block_size
        /\ "backup_id" \in DOMAIN header
        /\ header.backup_id = backup_id
        /\ "single_file" \in DOMAIN header
        /\ header.single_file \in BOOLEAN

\* ------------------------------------------------------ chunks of an adapter

\* C30: for every sequence of chunks written through
\* ChunkAdapter.write_data_chunk, chunks that compress and chunks that do
\* not, with no encryption key or with a key, read_data_chunk with the name,
\* offset and size returned for a chunk and the same key returns that chunk.
C30_ChunkRoundTrip ==
    \A i \in DOMAIN store_calls :
        LET c == store_calls[i]
        IN ChunkAdapter_read_data_chunk(fb_dir, c.info.name, c.info.offset,
                                        c.info.size, c.encryption_key) = c.chunk

\* Four chunks are written, the data file has rolled over, and among them
\* are a compressed chunk under a key, a compressed chunk under no key and
\* an empty chunk.
C30_Witness ==
    /\ Len(store_calls) = MaxCalls
    /\ store_calls[MaxCalls].info.name.number > 0
    /\ \E i, j, k \in DOMAIN store_calls :
          /\ store_calls[i].chunk = <<1, 1, 1, 1>>
          /\ store_calls[i].encryption_key # NoKey
          /\ store_calls[j].chunk = <<1, 1, 1, 1>>
          /\ store_calls[j].encryption_key = NoKey
          /\ store_calls[k].chunk = <<>>

\* ------------------------------------------------------------------ C27
\* The items of the list a run of consecutive ranges starts with.
RunStarts(list) ==
    {i \in 1..Len(list) : i = 1 \/ list[i][1] # list[i - 1][1] + list[i - 1][2]}

\* The last item of the run that starts with item i.
RunLast(list, i) ==
    CHOOSE j \in i..Len(list) :
        /\ \A k \in (i + 1)..j : k \notin RunStarts(list)
        /\ j = Len(list) \/ j + 1 \in RunStarts(list)

\* The ranges have positive sizes and lie within the object.
RangesWithin(object, list) ==
    \A i \in 1..Len(list) :
        /\ list[i][2] > 0
        /\ list[i][1] + list[i][2] <= Len(object)

\* C27: retrieve_file_ranges, for ranges of positive sizes within the object,
\* yields one byte string for each range, in the order of the list, each the
\* bytes of the object at its range, and makes one get_object request for each
\* maximal run of ranges that each begin where the one before ends, for the
\* bytes from the start of the run to its end; the same holds of a list that
\* holds a range twice.
C27_OneRequestPerRun ==
    (fn_call.op = "retrieve_file_ranges" /\ fn_result # Idle
        /\ RangesWithin(fn_call.object, fn_call.offset_size_list))
    => LET list == fn_call.offset_size_list
           object == fn_call.object
       IN  /\ ~fn_result.raised
           /\ Len(fn_result.yielded) = Len(list)
           /\ \A i \in 1..Len(list) :
                 fn_result.yielded[i] =
                     SubSeq(object, list[i][1] + 1, list[i][1] + list[i][2])
           /\ Len(fn_result.requests) = Cardinality(RunStarts(list))
           /\ \A i \in RunStarts(list) :
                 LET k == Cardinality({j \in RunStarts(list) : j <= i})
                     last == RunLast(list, i)
                 IN  fn_result.requests[k] =
                         [first |-> list[i][1],
                          last |-> list[last][1] + list[last][2] - 1]

\* A list with the same range twice, and a run of two ranges after it, has
\* been retrieved.
C27_Witness ==
    /\ fn_call.op = "retrieve_file_ranges"
    /\ fn_call.object = <<10, 11, 12, 13>>
    /\ fn_call.offset_size_list = <<<<1, 1>>, <<1, 1>>, <<2, 2>>>>
    /\ fn_result # Idle
    /\ fn_result.yielded = <<<<11>>, <<11>>, <<12, 13>>>>
    /\ Len(fn_result.requests) = 2

\* ------------------------------------------------------------------ C28
\* header (directory | file file_data* file_summary)*, by what may stand
\* next to what.
InGrammar(records) ==
    /\ Len(records) >= 1
    /\ records[1].kind = "baq_backup"
    /\ \A i \in 2..Len(records) :
          /\ records[i].kind \in {"directory", "file", "file_data", "file_summary"}
          /\ records[i].kind \in {"directory", "file"}
                => records[i - 1].kind \in {"baq_backup", "directory", "file_summary"}
          /\ records[i].kind \in {"file_data", "file_summary"}
                => records[i - 1].kind \in {"file", "file_data"}
    /\ records[Len(records)].kind \in {"baq_backup", "directory", "file_summary"}

\* C28: BackupMetaReader of helpers/metadata_file.py returns for the sequences
\* header (directory | file file_data* file_summary)* and raises for every
\* other: for a record of no known kind, for a record between a file and its
\* file_summary that is neither file_data nor file_summary, and for records
\* that end before a file's file_summary.
C28_AcceptsExactlyGrammar ==
    (fn_call.op = "BackupMetaReader" /\ fn_call.impl = "metadata_file"
        /\ fn_result # Idle)
    => (~fn_result.raised <=> InGrammar(fn_call.records))

\* The records ended after a file's file_data, and the reader raised.
C28_Witness ==
    /\ fn_call.op = "BackupMetaReader"
    /\ fn_call.impl = "metadata_file"
    /\ Len(fn_call.records) = 4
    /\ fn_call.records[1].kind = "baq_backup"
    /\ fn_call.records[2].kind = "directory"
    /\ fn_call.records[3].kind = "file"
    /\ fn_call.records[4].kind = "file_data"
    /\ fn_result # Idle
    /\ fn_result.raised

\* ------------------------------------------------------------------ C29
\* The reader has, for each directory and file record, the entry's own path,
\* times, mode, uid and gid, and for each file its blocks in the order of its
\* file_data records and the size and sha1 of its file_summary.
Recovers(self, records) ==
    /\ ~self.raised
    /\ DOMAIN self.directories =
          {records[i].path : i \in {k \in DOMAIN records : records[k].kind = "directory"}}
    /\ DOMAIN self.files =
          {records[i].path : i \in {k \in DOMAIN records : records[k].kind = "file"}}
    /\ \A i \in DOMAIN records :
          /\ records[i].kind = "directory" =>
                LET d == self.directories[records[i].path]
                    st == stat(records[i].path)
                IN  /\ d.st_mtime_ns = st.st_mtime_ns
                    /\ d.st_atime_ns = st.st_atime_ns
                    /\ d.st_mode = st.st_mode
                    /\ d.st_uid = st.st_uid
                    /\ d.st_gid = st.st_gid
          /\ records[i].kind = "file" =>
                LET f == self.files[records[i].path]
                    st == stat(records[i].path)
                    j == FileRecordsEnd(records, i)
                IN  /\ f.st_mtime_ns = st.st_mtime_ns
                    /\ f.st_atime_ns = st.st_atime_ns
                    /\ f.st_mode = st.st_mode
                    /\ f.st_uid = st.st_uid
                    /\ f.st_gid = st.st_gid
                    /\ f.blocks = [k \in 1..(j - i - 1) |-> BlockOfRecord(records[i + k])]
                    /\ f.original_size = records[j].size
                    /\ f.original_sha1 = records[j].sha1

\* C29: the reader parses every manifest do_backup writes, with directory
\* records and with owners and groups that are None, and recovers each entry.
C29_ReaderRecoversManifest ==
    (fn_call.op = "BackupMetaReader" /\ fn_call.written /\ fn_result # Idle)
    => Recovers(fn_result, fn_call.records)

\* The reader of helpers/metadata_file.py does.
HelpersReaderRecoversManifest ==
    (fn_call.op = "BackupMetaReader" /\ fn_call.written /\ fn_result # Idle
        /\ fn_call.impl = "metadata_file")
    => Recovers(fn_result, fn_call.records)

\* ------------------------------------------------------------------ C26
\* The backups among the first n runs that stored their manifest.
StoredRuns(n) == {i \in 1..n : runs[i].status = "ok"}

LastStored(n) == CHOOSE i \in StoredRuns(n) : \A j \in StoredRuns(n) : j <= i

DistinctIds == \A i, j \in 1..Len(runs) : i # j => runs[i].id # runs[j].id

\* C26: of the objects named baq.<id>.meta, load_previous_backup_for_reuse
\* and restore take the one with the greatest name, and it is the manifest of
\* the latest backup: after backups with ids that differ, a backup reuses the
\* manifest of the last backup stored before it, and restore restores the
\* last backup stored.
C26_LatestManifestSelected ==
    DistinctIds =>
        /\ \A i \in 1..Len(runs) :
              runs[i].reused =
                  IF StoredRuns(i - 1) = {} THEN None
                  ELSE MetaFileName(runs[LastStored(i - 1)].id)
        /\ restored.status = "ok" =>
              /\ StoredRuns(restored.after) # {}
              /\ restored.backup_id = runs[LastStored(restored.after)].id
              /\ restored.source = runs[LastStored(restored.after)].source
        /\ restored.status = "raised" => StoredRuns(restored.after) = {}

\* A backup was made in second 09 of a day and another of other contents in
\* second 10, a third run died after writing data, and the restore after it
\* restored the backup of second 10.
C26_Witness ==
    /\ Len(runs) = 3
    /\ runs[1].id = strftime(9) /\ runs[1].status = "ok"
    /\ runs[2].id = strftime(10) /\ runs[2].status = "ok"
    /\ runs[2].source # runs[1].source
    /\ runs[2].reused = MetaFileName(strftime(9))
    /\ runs[3].status = "interrupted"
    /\ restored.status = "ok"
    /\ restored.after = 3
    /\ restored.backup_id = strftime(10)

\* ------------------------------------------------------------------ C37
\* data_file_size (100 * 2**30 bytes) and part_size (100 * 2**20 bytes) of the
\* program, in MiB.
default_data_file_size_MiB == 102400

default_part_size_MiB == 100

\* C37: of every data file every part but the last has at least part_size
\* bytes and no part is empty; a data file has less than data_file_size bytes
\* and a block, so with the data_file_size and part_size of the program, and
\* blocks of less than part_size, it has no more than 10000 parts.
C37_PartSizes ==
    /\ \A f \in DOMAIN files :
          LET parts == files[f].parts IN
          /\ \A p \in DOMAIN parts :
                /\ parts[p].part_data # <<>>
                /\ p < Len(parts) => Len(parts[p].part_data) >= part_size
          /\ files[f].close_fut = "none" =>
                \A p \in DOMAIN parts : Len(parts[p].part_data) >= part_size
          /\ Len(File_written(files[f])) < data_file_size + MaxStoreLen
    /\ (default_data_file_size_MiB + default_part_size_MiB)
           \div default_part_size_MiB + 1 <= 10000

\* A data file was closed with a last part shorter than part_size after parts
\* of part_size and more.
C37_Witness ==
    \E f \in DOMAIN files :
        /\ files[f].close_fut # "none"
        /\ Len(files[f].parts) = 3
        /\ Len(files[f].parts[1].part_data) > part_size
        /\ Len(files[f].parts[3].part_data) < part_size

\* ------------------------------------------------------------------ C39
\* C39: a data file gets at most one finish task, _complete or _abort: the
\* exit of the collector's scope after close() submits no _abort, and a data
\* file whose multipart upload was completed is not aborted.
C39_OneFinishTask ==
    \A f \in DOMAIN files :
        /\ Len(files[f].finish_tasks) <= 1
        /\ files[f].close_fut # "none" => files[f].finish_tasks = <<files[f].close_task>>
        /\ files[f].closed_successfully =>
              /\ files[f].mpu = "completed"
              /\ files[f].finish_tasks = <<"complete">>
        /\ files[f].mpu = "completed" => files[f].closed_successfully

\* close() has returned with two data files completed: the stack has called
\* __exit__ of both.
C39_Witness ==
    /\ dc_pc = "closed"
    /\ Len(files) = 2
    /\ \A f \in DOMAIN files :
          files[f].mpu = "completed" /\ files[f].finish_tasks = <<"complete">>

\* ------------------------------------------------------------------ C38
\* The blocks read_thread reads of the file of the pipeline.
BlocksRead == (Len(CurrentData) + default_block_size - 1) \div default_block_size

\* Every thread of the pipeline has returned: every block was hashed in the
\* order read, its future has a result, the storer has written its record,
\* every worker has taken its None, and the queues are empty.
PipelineComplete ==
    /\ PipelineJoined
    /\ hasher.data = CurrentData
    /\ Len(futs) = BlocksRead
    /\ \A i \in DOMAIN futs : ~futs[i].waiting
    /\ Cardinality({i \in DOMAIN meta_file :
                       /\ meta_file[i].kind = "file_data"
                       /\ meta_owner[i] = CurrentPath}) = BlocksRead
    /\ \A w \in Workers : workers[w].item.none
    /\ wfhash_queue = <<>>
    /\ encrypt_queue = <<>>
    /\ store_queue = <<>>

\* The None items waiting in encrypt_queue.
SentinelsQueued ==
    Cardinality({i \in DOMAIN encrypt_queue : encrypt_queue[i].none})

\* The compress_and_encrypt_threads that have taken a None and returned.
WorkersStopped == Cardinality({w \in Workers : workers[w].pc = "done"})

PlanPlaces(tasks) ==
    {<<t, k>> : t \in DOMAIN tasks, k \in 1..MaxPlanBlocks} \cap
    {tk \in (DOMAIN tasks) \X (1..MaxPlanBlocks) :
        tk[2] <= Len(tasks[tk[1]].data_file_contents_chunk)}

\* C31: the restore tasks partition the (path, block) pairs of the manifest:
\* every pair is in exactly one task, once; each task holds between one and
\* restore_task_blocks pairs, all of its data file, in non-decreasing order
\* of store_offset; and the tasks are submitted in non-decreasing order of the
\* store_offset of their first block.
C31_PlanIsPartition ==
    (fn_call.op = "restore_tasks" /\ fn_result # Idle)
    => LET pairs == fn_call.pairs
           tasks == fn_result.tasks
           chunk(t) == tasks[t].data_file_contents_chunk
       IN  /\ \A i \in DOMAIN pairs :
                 Cardinality({tk \in PlanPlaces(tasks) :
                                 chunk(tk[1])[tk[2]] = pairs[i]}) = 1
           /\ Cardinality(PlanPlaces(tasks)) = Len(pairs)
           /\ \A t \in DOMAIN tasks :
                 /\ Len(chunk(t)) \in 1..restore_task_blocks
                 /\ \A k \in DOMAIN chunk(t) :
                       chunk(t)[k][2].store_file = tasks[t].data_file_name
                 /\ \A k \in 1..(Len(chunk(t)) - 1) :
                       chunk(t)[k][2].store_offset
                           <= chunk(t)[k + 1][2].store_offset
           /\ \A t \in 1..(Len(tasks) - 1) :
                 chunk(t)[1][2].store_offset <= chunk(t + 1)[1][2].store_offset

\* A plan of three tasks: a data file of three blocks, split in two tasks, and
\* a data file of one block whose task is submitted between them.
C31_Witness ==
    /\ fn_call.op = "restore_tasks"
    /\ fn_result # Idle
    /\ Len(fn_call.pairs) = 4
    /\ Len(fn_result.tasks) = 3
    /\ fn_result.tasks[1].data_file_name = 2
    /\ fn_result.tasks[2].data_file_name = 1
    /\ fn_result.tasks[3].data_file_name = 2
    /\ Len(fn_result.tasks[3].data_file_contents_chunk) = 1

\* ------------------------------------------------------------------ C32
\* C32: a restore task never has more than max_write_futures write futures
\* it has submitted and not awaited.
C32_OutstandingWritesCapped ==
    \A t \in DOMAIN rtasks : Len(rtasks[t].write_futures) <= max_write_futures

\* ------------------------------------------------------------------ C33
\* The writers of the blocks of file q.
WritersOf(q) == {w \in DOMAIN writers : restore_path(w) = q}

\* The bytes of the file of writer w where its block belongs.
BytesAtBlock(w) ==
    Slice(disk.files[restore_path(w)].data, fn_call.pairs[w][2].offset,
          fn_call.pairs[w][2].offset + Len(original_data(fn_call.pairs[w])))

\* C33: while the writers of a do_restore write the blocks of a file that did
\* not exist, the file is created once at most, no writer raises because the
\* file was there or was not, the block of each writer that has returned is at
\* its offset whatever the others did since, and the file whose writers have
\* all returned holds the original bytes.
C33_FileCreatedOnce ==
    main.pc \in {"await", "exit", "unwind"}
    => \A q \in DOMAIN WriteFiles :
          /\ disk.creates[q] <= 1
          /\ disk.files[q].exists <=> disk.creates[q] = 1
          /\ \A w \in WritersOf(q) :
                /\ writers[w].error \notin {"FileNotFoundError", "FileExistsError"}
                /\ writers[w].pc = "done"
                      => BytesAtBlock(w) = original_data(fn_call.pairs[w])
          /\ (\A w \in WritersOf(q) : writers[w].pc = "done")
                => disk.files[q].data = WriteFiles[q]

\* The writer of the first block of "d/b" found no file and then could not
\* create it, the writer of the second block having created the file and
\* written its block in between.
C33_Witness ==
    /\ main.pc = "await"
    /\ writers[2].pc = "reopen"
    /\ writers[3].pc = "done"
    /\ disk.files["d/b"].data = <<0, 0, 1>>

\* ------------------------------------------------------------------ C34
\* C34: a writer tests for its parent directory and makes it only while it
\* holds directory_mutex, the directory is made once at most, and mkdir raises
\* FileExistsError in no writer.
C34_DirectoryMadeOnce ==
    main.pc \in {"await", "exit", "unwind"}
    => /\ disk.mkdirs <= 1
       /\ ("d" \in disk.dirs) <=> disk.mkdirs = 1
       /\ \A w \in DOMAIN writers :
             /\ writers[w].error # "FileExistsError: mkdir"
             /\ writers[w].pc \in {"check", "mkdir"} => mutex = w

\* The writer of one block of "d/b" is about to make the directory "d" while
\* the writer of the other waits for the mutex.
C34_Witness ==
    /\ main.pc = "await"
    /\ writers[3].pc = "mkdir"
    /\ mutex = 3
    /\ writers[2].pc = "lock"
    /\ "d" \notin disk.dirs

\* ------------------------------------------------------------------ C35
\* A restore task or a block write has failed.
RestoreFailed ==
    \/ \E t \in DOMAIN rtasks : rtasks[t].pc = "failed"
    \/ \E w \in DOMAIN writers : writers[w].pc = "failed"

\* The second with block of do_restore has been entered.
PostProcessing == main.pc \in {"post", "returned"}

\* C35: the post-processing of do_restore begins only when every restore task
\* has returned and every block write it submitted has returned; when a task
\* or a write has failed the post-processing never begins, and do_restore
\* raises.
C35_PostProcessingAfterWrites ==
    /\ [](PostProcessing
            => /\ \A t \in DOMAIN rtasks : rtasks[t].pc = "done"
               /\ \A w \in DOMAIN writers : writers[w].pc \in {"none", "done"}
               /\ ~RestoreFailed)
    /\ [](RestoreFailed => ~PostProcessing)
    /\ RestoreFailed ~> (main.pc = "raised" /\ fn_result = Raised)

\* do_restore has raised after a damaged block failed in one writer while
\* another writer wrote its block.
C35_Witness ==
    /\ main.pc = "raised"
    /\ \E w \in DOMAIN writers : writers[w] = [pc |-> "failed", error |-> "damaged"]
    /\ \E w \in DOMAIN writers : writers[w].pc = "done"
    /\ \A t \in DOMAIN rtasks : rtasks[t].pc \in {"done", "failed"}

HeaderKeys(m) == {m.encryption_keys[k].sha1 : k \in DOMAIN m.encryption_keys}

\* C40: after any incremental backups, each with any reuse_backup_count,
\* every content record of a manifest names a key of the manifest's header,
\* so that get_key finds the key of every record in a restore; and a chunk the
\* prior manifest held under a key the backup did not retain is written
\* again, under the key of the backup.
C40_ContentKeysInHeader ==
    /\ \A n \in DOMAIN runs :
          /\ \A i \in DOMAIN runs[n].contents :
                /\ runs[n].contents[i].encryption_key_sha1 \in HeaderKeys(runs[n])
                /\ get_key(runs[n].encryption_keys,
                           runs[n].contents[i].encryption_key_sha1) # Raised
          /\ n > 1 =>
                \A i \in DOMAIN runs[n].contents :
                    LET c == runs[n].contents[i]
                        retained == {runs[n].encryption_keys[k].sha1 :
                                        k \in 2..Len(runs[n].encryption_keys)}
                        prior == {j \in DOMAIN runs[n - 1].contents :
                                     runs[n - 1].contents[j].sha3_512 = c.sha3_512}
                    IN  (prior # {} /\ \A j \in prior :
                            runs[n - 1].contents[j].encryption_key_sha1 \notin retained)
                        => /\ c.df_name = n
                           /\ c.encryption_key_sha1 = sha1(runs[n].encryption_keys[1].hex)
                           /\ runs[n].written[c.df_offset + 1].data = c.sha3_512.of
    /\ restored.status # "Could not open key"

\* Three backups of the same chunk: the second reused the chunk of the first
\* with its key, the third retained the key of the second only and wrote the
\* chunk again; the restore of the third found its keys.
C40_Witness ==
    /\ Len(runs) = 3
    /\ runs[2].contents[1].df_name = 1
    /\ Len(runs[2].encryption_keys) = 2
    /\ runs[3].reuse_backup_count = 1
    /\ runs[3].contents[1].sha3_512 = runs[2].contents[1].sha3_512
    /\ runs[3].contents[1].df_name = 3
    /\ restored.status = "ok"
    /\ restored.of = 3

====
